---- MODULE Spec2Model ----
(***************************************************************************)
(* Model of the traffic-violation vision pipeline:                         *)
(*   backend/vision/tracker.py          CentroidTracker, TrackedObject     *)
(*   backend/vision/detector.py         Detection, YOLODetector            *)
(*   backend/vision/violations/zone.py  ZoneViolationDetector              *)
(*   backend/vision/violations/direction.py  DirectionViolationDetector    *)
(*   backend/config.py                  Settings                           *)
(*   backend/vision/violation_manager.py  ViolationManager                 *)
(*   backend/vision/pipeline.py         VideoPipeline.run                  *)
(*   backend/api/schemas.py, routes.py, models.py, database.py, ws.py      *)
(*                                      POST /api/alerts, live push        *)
(* Distances are compared through their squares (sqrt is monotone on the   *)
(* non-negative integers the model uses), confidences are in percent and   *)
(* wall-clock time is in whole ticks.                                      *)
(***************************************************************************)
EXTENDS Integers, Sequences, FiniteSets, TLC

VARIABLES
    objects,          \* CentroidTracker.objects: insertion-ordered id -> TrackedObject
    next_object_id,   \* CentroidTracker._next_object_id
    frames,           \* number of update calls made on the tracker so far
    last_op,          \* the operation that produced the tracker state
    dets,             \* argument of the last update call
    pre_objects,      \* CentroidTracker.objects as it was before the last call
    assigned,         \* ids handed out by _register since construction / reset
    missed,           \* id -> consecutive updates without an associated detection
    empties_before,   \* consecutive update([]) calls right before the last call
    reset_from        \* _next_object_id when reset was last called, -1 if never

trackerVars == <<objects, next_object_id, frames, last_op, dets, pre_objects,
                 assigned, missed, empties_before, reset_from>>

VARIABLES
    dwell_counts,     \* ZoneViolationDetector._dwell_counts
    last_alert_time,  \* ZoneViolationDetector._last_alert_time
    clock,            \* the wall clock, what time.time() returns
    check_time,       \* now = time.time() as the last check call read it
    zone_input,       \* argument of the last ZoneViolationDetector.check call
    violations,       \* list the last check call returned
    inside_run,       \* id -> most recent consecutive checks listing it inside the zone
    last_event,       \* id -> timestamp of its latest ILLEGAL_PARKING event, -1 if none
    prev_event,       \* last_event as it was before the last check call
    listed_since,     \* id -> an event was emitted for it and every check since listed it
    prev_listed_since \* listed_since as it was before the last check call

zoneVars == <<dwell_counts, last_alert_time, clock, check_time, zone_input, violations,
              inside_run, last_event, prev_event, listed_since, prev_listed_since>>

VARIABLES
    dir_status,           \* "none" before construction, "ok" once built, "error" if __init__ raised
    lane_input,           \* lane_direction argument given to __init__
    lane_direction,       \* DirectionViolationDetector.lane_direction
    direction_zone,       \* what Settings.get_direction_zone_polygon() returns
    wrong_way_counts,     \* DirectionViolationDetector._wrong_way_counts
    dir_last_alert_time,  \* DirectionViolationDetector._last_alert_time
    dir_clock,            \* the wall clock, what time.time() returns
    dir_check_time,       \* now = time.time() as the last check call read it
    dir_input,            \* argument of the last DirectionViolationDetector.check call
    dir_violations,       \* list the last check call returned
    pre_wrong_way_counts, \* _wrong_way_counts as it was before the last check call
    pre_dir_alert_time,   \* _last_alert_time as it was before the last check call
    wrong_run,            \* id -> wrong-way checks since its last correct-direction check or absence
    still_run,            \* id -> most recent consecutive checks listing it without a movement
                          \*       vector, counted up to direction_threshold
    moved_ever,           \* id -> some check so far computed a movement vector for it
    dir_last_event,       \* id -> timestamp of its latest WRONG_WAY event, -1 if none
    dir_prev_event        \* dir_last_event as it was before the last check call

dirVars == <<dir_status, lane_input, lane_direction, direction_zone, wrong_way_counts,
             dir_last_alert_time, dir_clock, dir_check_time, dir_input, dir_violations,
             pre_wrong_way_counts, pre_dir_alert_time, wrong_run, still_run, moved_ever,
             dir_last_event, dir_prev_event>>

VARIABLES
    mgr_status,          \* "none" before ViolationManager(), "ok" once built, "error" if it raised
    settings,            \* the Settings the manager was built from
    zone_detector,       \* ViolationManager.zone_detector: its _dwell_counts and _last_alert_time
    direction_detector,  \* ViolationManager.direction_detector: lane direction and both maps
    total_violations,    \* ViolationManager._total_violations
    violations_by_type,  \* ViolationManager._violations_by_type
    mgr_clock,           \* the wall clock, what time.time() returns
    mgr_input,           \* tracked_objects of the last check_violations call
    all_violations,      \* list the last check_violations call returned
    effects,             \* what the last call did, in order: count, snapshot, post
    snapshot_files,      \* paths of the snapshot files that exist on disk
    returned_total,      \* number of events returned by all check_violations calls so far
    calls,               \* check_violations calls made so far
    max_event_time,      \* id -> largest timestamp of an event emitted for it, -1 if none
    prev_max_event_time  \* max_event_time as it was before the last call

mgrVars == <<mgr_status, settings, zone_detector, direction_detector, total_violations,
             violations_by_type, mgr_clock, mgr_input, all_violations, effects,
             snapshot_files, returned_total, calls, max_event_time, prev_max_event_time>>

\* one VideoPipeline.run
VARIABLES
    pipe_pc,            \* "idle", "read", "detect", "track", "check", "display", "finally",
                        \* "returned", "raised", "open_failed"
    source_frames,      \* frames the source delivers before a read returns no frame
    display,            \* the display argument of run
    max_frames,         \* the max_frames argument of run: None or << n >>
    frames_read,        \* reads that returned a frame
    frame_count,        \* the local frame_count of run
    detect_calls,       \* frames passed through detector.detect
    track_calls,        \* frames passed through tracker.update
    check_calls,        \* frames passed through violation_manager.check_violations
    show_calls,         \* frames shown by cv2.imshow
    cap_released,       \* cap.release() was called
    windows_destroyed,  \* cv2.destroyAllWindows() was called
    reported_frames,    \* the frame total of the "Pipeline stopped" log line, None before it
    cause,              \* why the loop was left: "", "eos", "cap", "quit", "raise"
    raised_in,          \* the step that raised, "" if none
    leave_marks         \* the counters when the loop was left, None before

pipeVars == <<pipe_pc, source_frames, display, max_frames, frames_read, frame_count,
              detect_calls, track_calls, check_calls, show_calls, cap_released,
              windows_destroyed, reported_frames, cause, raised_in, leave_marks>>

\* one YOLODetector._postprocess call
VARIABLES
    original_shape,     \* << orig_h, orig_w >> of the frame
    scale,              \* the letterbox scale, << numerator, denominator >>
    pad,                \* << pad_x, pad_y >>
    predictions,        \* the rows of the output tensor handed to the last call
    detections,         \* what the last call returned
    postprocess_calls   \* calls made

detVars == <<original_shape, scale, pad, predictions, detections, postprocess_calls>>

\* the frames of one VideoPipeline.run, from the tracker to the bookkeeping
VARIABLES
    confirmed_violations,  \* the local confirmed_violations of run: object_id -> violation_type
    dwell_before,          \* zone_detector._dwell_counts as it was before the last frame
    wrong_way_before       \* direction_detector._wrong_way_counts as it was before the last frame

frameVars == <<confirmed_violations, dwell_before, wrong_way_before>>

\* the API server: the alerts table, the WebSocket connection manager and
\* the requests served
VARIABLES
    alerts,              \* the committed rows of the alerts table
    pre_alerts,          \* alerts as it was before the last request
    api_clock,           \* datetime.now(UTC), in whole ticks
    active_connections,  \* ConnectionManager.active_connections
    deliveries,          \* client -> the messages its WebSocket has received, in order
    last_request,        \* the last POST /api/alerts: payload, outcome, record, connections
    posts,               \* POST /api/alerts requests served so far
    pushed               \* every message handed to ws_manager.broadcast so far

apiVars == <<alerts, pre_alerts, api_clock, active_connections, deliveries, last_request,
             posts, pushed>>

\* one ConnectionManager.broadcast, from await to await
VARIABLES
    bc_pc,           \* "idle", "sending" (suspended in await connection.send_json), "done"
    bc_message,      \* the message argument
    bc_index,        \* the position the list iterator of the for loop will read next
    bc_current,      \* the connection whose send_json is awaited
    bc_disconnected, \* the local list disconnected
    bc_stayed,       \* clients in active_connections ever since the broadcast began
    bc_removed,      \* clients the broadcast itself removed from active_connections
    bc_count         \* broadcasts begun so far

bcVars == <<bc_pc, bc_message, bc_index, bc_current, bc_disconnected, bc_stayed,
            bc_removed, bc_count>>

vars == <<trackerVars, zoneVars, dirVars, mgrVars, pipeVars, detVars, frameVars, apiVars, bcVars>>

----------------------------------------------------------------------------
(* Bounds of the model *)

MaxFrames == 3          \* update calls explored on one tracker
MaxHistoryFrames == 32  \* update calls explored on one long-lived track
MaxMoves == 2           \* centroid changes held in the histories of a long run
MaxDets == 2            \* detections in one frame
MaxObjectId == 3        \* cap on _next_object_id
max_disappeared == 1    \* CentroidTracker(max_disappeared=...)
max_distance == 2       \* CentroidTracker(max_distance=...)

dwell_threshold == 2    \* ZoneViolationDetector(dwell_threshold=...)
cooldown_seconds == 2   \* ZoneViolationDetector(cooldown_seconds=...)
MaxDwell == 3           \* cap on a dwell counter
MaxElapsed == 3         \* wall-clock time explored

direction_threshold == 2          \* DirectionViolationDetector(direction_threshold=...)
min_displacement == 2             \* DirectionViolationDetector(min_displacement=...)
direction_cooldown_seconds == 1   \* DirectionViolationDetector(cooldown_seconds=...)
MaxWrongWay == 3                  \* cap on a wrong-way counter
MaxDirectionElapsed == 2          \* wall-clock time explored by the direction detector
MaxLane == 5                      \* lane_direction components range over -MaxLane..MaxLane

MaxCalls == 4                     \* check_violations calls explored on one manager
MaxManagerElapsed == 2            \* wall-clock range explored by the manager
MaxThreshold == 2                 \* thresholds in the settings range over -1..MaxThreshold
MaxSourceFrames == 3              \* a video source delivers at most this many frames
MaxCap == 2                       \* max_frames, when given, is in 0..MaxCap
TargetSize == 8                   \* side of the letterbox target, 640 in the program

MaxExtent == 4                    \* largest width and height of a reported box

MaxClients == 3                   \* dashboard clients

MaxPosts == 2                     \* POST /api/alerts requests

MaxApiElapsed == 1                \* clock ticks at the server

MaxBroadcasts == 2                \* broadcasts followed from await to await

MaxPredictions == 2               \* rows in one output tensor

(* Program constants *)

DEFAULT_HISTORY_LENGTH == 30

----------------------------------------------------------------------------
(* detector.py: Detection *)

VEHICLE_CLASS_IDS == (2 :> "car") @@ (3 :> "motorcycle") @@ (5 :> "bus") @@ (7 :> "truck")

Center(bbox) == << (bbox[1] + bbox[3]) \div 2, (bbox[2] + bbox[4]) \div 2 >>

Detection(bbox, class_id, confidence) ==
    [ bbox |-> bbox, class_id |-> class_id, class_name |-> VEHICLE_CLASS_IDS[class_id],
      confidence |-> confidence, center |-> Center(bbox) ]

\* The detections a frame is drawn from: centres (1,1), (2,1) and (4,1).
DetectionUniverse ==
    { Detection(<<0, 0, 2, 2>>, 2, 90),
      Detection(<<1, 0, 3, 3>>, 7, 50),
      Detection(<<3, 0, 5, 2>>, 2, 50) }

SeqsUpTo(S, n) == UNION { [1..k -> S] : k \in 0..n }

FrameInputs == SeqsUpTo(DetectionUniverse, MaxDets)

----------------------------------------------------------------------------
(* tracker.py: TrackedObject *)

HistoryUnbounded(h, c) == Append(h, c)

\* deque(maxlen=DEFAULT_HISTORY_LENGTH).append
HistoryAppend(h, c) ==
    IF Len(h) >= DEFAULT_HISTORY_LENGTH THEN Tail(h) \o <<c>> ELSE Append(h, c)

\* the dataclass, field by field
Track(id, c, bbox, class_id, class_name, confidence, disappeared, history, n) ==
    [ object_id |-> id, centroid |-> c, bbox |-> bbox,
      class_id |-> class_id, class_name |-> class_name, confidence |-> confidence,
      disappeared |-> disappeared, centroid_history |-> history, frame_count |-> n ]

\* TrackedObject(...) as _register builds it; __post_init__ seeds the history
TrackedObject(object_id, det) ==
    Track(object_id, det.center, det.bbox, det.class_id, det.class_name,
          det.confidence, 0, HistoryAppend(<<>>, det.center), 0)

\* obj.disappeared = d
WithDisappeared(o, d) ==
    Track(o.object_id, o.centroid, o.bbox, o.class_id, o.class_name, o.confidence,
          d, o.centroid_history, o.frame_count)

----------------------------------------------------------------------------
(* tracker.py: CentroidTracker.  A tracker value is [objs, nid, log]: the   *)
(* ordered mapping, _next_object_id and the ids _register has handed out.  *)

Ids(objs) == { objs[i].object_id : i \in 1..Len(objs) }

IndexOf(objs, id) == CHOOSE i \in 1..Len(objs) : objs[i].object_id = id

ActiveCount(objs) == Len(objs)

\* self.objects[id] = obj on an OrderedDict: a present key keeps its place.
DictSet(objs, obj) ==
    IF obj.object_id \in Ids(objs)
    THEN [ k \in 1..Len(objs) |->
             IF objs[k].object_id = obj.object_id THEN obj ELSE objs[k] ]
    ELSE Append(objs, obj)

\* A counter that does not advance.
NextIdStuck(nid) == nid

\* self._next_object_id += 1
NextIdAfterRegister(nid) == nid + 1

Register(t, det) ==
    [ objs |-> DictSet(t.objs, TrackedObject(t.nid, det)),
      nid  |-> NextIdAfterRegister(t.nid),
      log  |-> Append(t.log, t.nid) ]

\* a sequence without its i-th element
RemoveAt(s, i) == [ k \in 1..(Len(s) - 1) |-> IF k < i THEN s[k] ELSE s[k + 1] ]

\* CentroidTracker._deregister
Deregister(objs, id) == RemoveAt(objs, IndexOf(objs, id))

ExceedsEq(disappeared) == disappeared >= max_disappeared

ExceedsLate(disappeared) == disappeared > max_disappeared + 1

\* self.objects[obj_id].disappeared > self.max_disappeared
Exceeds(disappeared) == disappeared > max_disappeared

\* disappeared += 1, then _deregister when over the threshold, for one id
MarkDisappeared(objs, id) ==
    LET i == IndexOf(objs, id)
        d == objs[i].disappeared + 1
    IN  IF Exceeds(d) THEN Deregister(objs, id)
        ELSE [ k \in 1..Len(objs) |->
                 IF k = i THEN WithDisappeared(objs[k], d) ELSE objs[k] ]

RECURSIVE MarkAll(_, _)
\* the loops over ids (a sequence, in order) that mark tracks disappeared
MarkAll(objs, ids) ==
    IF ids = <<>> THEN objs
    ELSE MarkAll(MarkDisappeared(objs, Head(ids)), Tail(ids))

RECURSIVE RegisterAll(_, _)
RegisterAll(t, ds) ==
    IF ds = <<>> THEN t ELSE RegisterAll(Register(t, Head(ds)), Tail(ds))

SqDist(p, q) == (p[1] - q[1]) * (p[1] - q[1]) + (p[2] - q[2]) * (p[2] - q[2])

\* cdist(existing_centroids, new_centroids)[row, col], squared
Dist2(objs, ds, row, col) == SqDist(objs[row].centroid, ds[col].center)

SetMin(S) == CHOOSE m \in S : \A x \in S : m <= x

\* distances.min(axis=1)[row]
RowMin(objs, ds, row) == SetMin({ Dist2(objs, ds, row, c) : c \in 1..Len(ds) })

\* distances.argmin(axis=1)[row]: the first column holding the minimum
ArgMin(objs, ds, row) ==
    SetMin({ c \in 1..Len(ds) : Dist2(objs, ds, row, c) = RowMin(objs, ds, row) })

RECURSIVE SortedOrders(_, _, _)
\* distances.min(axis=1).argsort(): every order of the rows by ascending
\* minimum (the default sort kind is not stable, equal keys come in any order)
SortedOrders(objs, ds, rows) ==
    IF rows = {} THEN { <<>> }
    ELSE LET m == SetMin({ RowMin(objs, ds, r) : r \in rows })
         IN  UNION { { <<r>> \o s : s \in SortedOrders(objs, ds, rows \ {r}) } :
                     r \in { x \in rows : RowMin(objs, ds, x) = m } }

TooFarStrict(d2) == d2 >= max_distance * max_distance

\* distances[row, col] > self.max_distance
TooFar(d2) == d2 > max_distance * max_distance

RECURSIVE GreedyNearestFree(_, _, _, _, _)
\* An association that falls back on the nearest detection still free.
GreedyNearestFree(objs, ds, order, used_rows, used_cols) ==
    IF order = <<>> THEN {}
    ELSE LET r == Head(order)
             free == { c \in 1..Len(ds) : c \notin used_cols }
             c == IF free = {} THEN 0
                  ELSE CHOOSE x \in free :
                         \A y \in free :
                             \/ Dist2(objs, ds, r, x) < Dist2(objs, ds, r, y)
                             \/ Dist2(objs, ds, r, x) = Dist2(objs, ds, r, y) /\ x <= y
         IN  IF r \in used_rows \/ c = 0
             THEN GreedyNearestFree(objs, ds, Tail(order), used_rows, used_cols)
             ELSE IF TooFar(Dist2(objs, ds, r, c))
             THEN GreedyNearestFree(objs, ds, Tail(order), used_rows, used_cols)
             ELSE { <<r, c>> } \cup
                  GreedyNearestFree(objs, ds, Tail(order), used_rows \cup {r},
                                    used_cols \cup {c})

RECURSIVE Greedy(_, _, _, _, _)
\* the loop over zip(rows, cols): the set of accepted <<row, col>> pairs
Greedy(objs, ds, order, used_rows, used_cols) ==
    IF order = <<>> THEN {}
    ELSE LET r == Head(order)
             c == ArgMin(objs, ds, r)
         IN  IF r \in used_rows \/ c \in used_cols \/ TooFar(Dist2(objs, ds, r, c))
             THEN Greedy(objs, ds, Tail(order), used_rows, used_cols)
             ELSE { <<r, c>> } \cup
                  Greedy(objs, ds, Tail(order), used_rows \cup {r}, used_cols \cup {c})

AssociateKeepsDisappeared(obj, det) ==
    Track(obj.object_id, det.center, det.bbox, obj.class_id, obj.class_name,
          det.confidence, obj.disappeared,
          HistoryAppend(obj.centroid_history, det.center), obj.frame_count + 1)

\* the body of the loop on a valid match
Associate(obj, det) ==
    Track(obj.object_id, det.center, det.bbox, obj.class_id, obj.class_name,
          det.confidence, 0,
          HistoryAppend(obj.centroid_history, det.center), obj.frame_count + 1)

ApplyMatches(objs, ds, pairs) ==
    [ r \in 1..Len(objs) |->
        IF \E p \in pairs : p[1] = r
        THEN Associate(objs[r], ds[(CHOOSE p \in pairs : p[1] = r)[2]])
        ELSE objs[r] ]

\* elements of 1..n outside used, ascending, as a sequence
RECURSIVE Unused(_, _, _)
Unused(k, n, used) ==
    IF k > n THEN <<>>
    ELSE IF k \in used THEN Unused(k + 1, n, used)
         ELSE <<k>> \o Unused(k + 1, n, used)

\* ids of the rows left unmatched, in row order
LostIds(objs, doneRows) ==
    [ i \in 1..Len(Unused(1, Len(objs), doneRows)) |->
        objs[Unused(1, Len(objs), doneRows)[i]].object_id ]

\* An update that registers nothing for the detections left unmatched.
NoNewDets(frame, doneCols) == << >>

\* the detections left unmatched, in column order
NewDets(frame, doneCols) ==
    [ i \in 1..Len(Unused(1, Len(frame), doneCols)) |->
        frame[Unused(1, Len(frame), doneCols)[i]] ]

\* Case 3 of update once the greedy loop has accepted pairs
FinishMatch(trk, frame, pairs) ==
    RegisterAll(
        [ objs |-> MarkAll(ApplyMatches(trk.objs, frame, pairs),
                           LostIds(trk.objs, { p[1] : p \in pairs })),
          nid  |-> trk.nid,
          log  |-> trk.log ],
        NewDets(frame, { p[2] : p \in pairs }))

\* Case 3 of update for one argsort order
MatchUpdate(trk, frame, order) ==
    FinishMatch(trk, frame, Greedy(trk.objs, frame, order, {}, {}))

\* ids of the tracks update associates with a detection, for one order
MatchedIds(t, ds, order) ==
    IF Len(ds) = 0 \/ Len(t.objs) = 0 THEN {}
    ELSE { t.objs[p[1]].object_id : p \in Greedy(t.objs, ds, order, {}, {}) }

\* CentroidTracker.update
UpdateResult(t, ds, order) ==
    IF Len(ds) = 0
    THEN [ objs |-> MarkAll(t.objs, [ i \in 1..Len(t.objs) |-> t.objs[i].object_id ]),
           nid  |-> t.nid, log |-> t.log ]
    ELSE IF Len(t.objs) = 0
    THEN RegisterAll(t, ds)
    ELSE MatchUpdate(t, ds, order)

Orders(t, ds) ==
    IF Len(ds) = 0 \/ Len(t.objs) = 0 THEN { <<>> }
    ELSE SortedOrders(t.objs, ds, 1..Len(t.objs))

ResetKeepsCounter == [ objs |-> <<>>, nid |-> next_object_id, log |-> <<>> ]

\* CentroidTracker.reset
ResetResult == [ objs |-> <<>>, nid |-> 0, log |-> <<>> ]

----------------------------------------------------------------------------
(* violations/zone.py: ZoneViolationDetector *)

\* self.polygon: a square with (1,1) on its edge, (2,1) inside, (4,1) outside
polygon == << <<1, 0>>, <<3, 0>>, <<3, 2>>, <<1, 2>> >>

zone_id == "zone_1"

\* the wall clock when the detector is built: time.time() counts from 1970,
\* so that now - 0 exceeds the cooldown
StartTime == cooldown_seconds + 1

Cross(a, b, p) == (b[1] - a[1]) * (p[2] - a[2]) - (b[2] - a[2]) * (p[1] - a[1])

Between(x, u, v) == (u <= x /\ x <= v) \/ (v <= x /\ x <= u)

OnEdge(a, b, p) ==
    Cross(a, b, p) = 0 /\ Between(p[1], a[1], b[1]) /\ Between(p[2], a[2], b[2])

\* the edge a-b crosses the horizontal ray from p towards +x
RayCrosses(a, b, p) ==
    /\ (a[2] > p[2]) # (b[2] > p[2])
    /\ IF b[2] > a[2]
       THEN (p[1] - a[1]) * (b[2] - a[2]) < (p[2] - a[2]) * (b[1] - a[1])
       ELSE (p[1] - a[1]) * (b[2] - a[2]) > (p[2] - a[2]) * (b[1] - a[1])

EdgeEnd(poly, i) == poly[(i % Len(poly)) + 1]

\* cv2.pointPolygonTest(poly, p, measureDist=False): 1 inside, 0 on an edge, -1 outside
PointPolygonTest(poly, p) ==
    IF \E i \in 1..Len(poly) : OnEdge(poly[i], EdgeEnd(poly, i), p) THEN 0
    ELSE IF Cardinality({ i \in 1..Len(poly) : RayCrosses(poly[i], EdgeEnd(poly, i), p) }) % 2 = 1
         THEN 1
         ELSE -1

\* ZoneViolationDetector.is_inside_zone
IsInsideZone(point) == PointPolygonTest(polygon, point) >= 0

\* dict operations
DictGet(m, k, default) == IF k \in DOMAIN m THEN m[k] ELSE default
DictPut(m, k, v) == [ x \in DOMAIN m \cup {k} |-> IF x = k THEN v ELSE m[x] ]
\* A pop that removes nothing.
DictKeep(m, K) == m

DictPop(m, K) == [ x \in DOMAIN m \ K |-> m[x] ]

ViolationEvent(violation_type, object_id, confidence, timestamp, zid, metadata) ==
    [ violation_type |-> violation_type, object_id |-> object_id,
      confidence |-> confidence, timestamp |-> timestamp, zone_id |-> zid,
      metadata |-> metadata ]

ParkingEvent(obj, count, now) ==
    ViolationEvent("ILLEGAL_PARKING", obj.object_id, obj.confidence, now, zone_id,
                   [ dwell_frames |-> count, class |-> obj.class_name, bbox |-> obj.bbox ])

DwellReachedLate(count) == count > dwell_threshold

\* self._dwell_counts[obj.object_id] >= self.dwell_threshold
DwellReached(count) == count >= dwell_threshold

\* A cooldown that lets only the first alert through.
CooldownFirstOnly(now, last_alert) == last_alert = 0

\* now - last_alert > self.cooldown_seconds
CooldownOver(now, last_alert) == now - last_alert > cooldown_seconds

\* A visit that forgets the last alert of an object found outside the zone.
ZoneVisitForgets(z, obj, now) ==
    IF IsInsideZone(obj.centroid)
    THEN IF DwellReached(DictGet(z.dwell, obj.object_id, 0) + 1)
            /\ CooldownOver(now, DictGet(z.alert, obj.object_id, 0))
         THEN [ dwell  |-> DictPut(z.dwell, obj.object_id, DictGet(z.dwell, obj.object_id, 0) + 1),
                alert  |-> DictPut(z.alert, obj.object_id, now),
                events |-> Append(z.events,
                                  ParkingEvent(obj, DictGet(z.dwell, obj.object_id, 0) + 1, now)) ]
         ELSE [ dwell  |-> DictPut(z.dwell, obj.object_id, DictGet(z.dwell, obj.object_id, 0) + 1),
                alert  |-> z.alert,
                events |-> z.events ]
    ELSE [ dwell |-> DictPop(z.dwell, {obj.object_id}),
           alert |-> DictPop(z.alert, {obj.object_id}), events |-> z.events ]

\* A zone detector value is [dwell, alert, events].
\* the body of the loop over tracked_objects, for one object
ZoneVisit(z, obj, now) ==
    IF IsInsideZone(obj.centroid)
    THEN IF DwellReached(DictGet(z.dwell, obj.object_id, 0) + 1)
            /\ CooldownOver(now, DictGet(z.alert, obj.object_id, 0))
         THEN [ dwell  |-> DictPut(z.dwell, obj.object_id, DictGet(z.dwell, obj.object_id, 0) + 1),
                alert  |-> DictPut(z.alert, obj.object_id, now),
                events |-> Append(z.events,
                                  ParkingEvent(obj, DictGet(z.dwell, obj.object_id, 0) + 1, now)) ]
         ELSE [ dwell  |-> DictPut(z.dwell, obj.object_id, DictGet(z.dwell, obj.object_id, 0) + 1),
                alert  |-> z.alert,
                events |-> z.events ]
    ELSE [ dwell |-> DictPop(z.dwell, {obj.object_id}), alert |-> z.alert, events |-> z.events ]

RECURSIVE ZoneLoop(_, _, _)
ZoneLoop(z, objs, now) ==
    IF objs = <<>> THEN z ELSE ZoneLoop(ZoneVisit(z, Head(objs), now), Tail(objs), now)

\* stale_ids = set(self._dwell_counts.keys()) - active_ids
StaleIds(z, objs) == DOMAIN z.dwell \ Ids(objs)

\* the cleanup that ends check
ZoneCleanup(z, objs) ==
    [ dwell  |-> DictPop(z.dwell, StaleIds(z, objs)),
      alert  |-> DictPop(z.alert, StaleIds(z, objs)),
      events |-> z.events ]

\* ZoneViolationDetector.check(tracked_objects) with time.time() = now
ZoneCheck(z, objs, now) ==
    ZoneCleanup(ZoneLoop([ dwell |-> z.dwell, alert |-> z.alert, events |-> <<>> ], objs, now),
                objs)

----------------------------------------------------------------------------
(* backend/vision/violations/direction.py and the settings it is built from *)
(* A unit vector direction / norm is kept exactly as [x, y, n2], standing   *)
(* for (x, y) / sqrt(n2); a dot product with it as [num, n2], standing for  *)
(* num / sqrt(n2).                                                          *)

None == << >>

\* The direction_zone_polygon settings explored: unset, blank, and a polygon.
DirectionZoneSettings == { "", " ", "[[1,0],[3,0],[3,2],[1,2]]" }

\* str.strip on those settings
Strip(setting) == IF setting = " " THEN "" ELSE setting

\* json.loads on those settings
JsonLoads(setting) == IF setting = "[[1,0],[3,0],[3,2],[1,2]]" THEN polygon ELSE None

\* Settings.get_direction_zone_polygon: None for a blank setting
GetDirectionZonePolygon(setting) == IF Strip(setting) = "" THEN None ELSE JsonLoads(setting)

\* np.linalg.norm(v), squared
Norm2(v) == v[1] * v[1] + v[2] * v[2]

\* A lane direction stored as given.
NotNormalized(direction) == [ x |-> direction[1], y |-> direction[2], n2 |-> 1 ]

\* direction / norm
Normalize(direction) == [ x |-> direction[1], y |-> direction[2], n2 |-> Norm2(direction) ]

\* DirectionViolationDetector.__init__: raises ValueError on a zero vector
DirectionInit(lane) ==
    IF Norm2(lane) = 0
    THEN [ status |-> "error", lane_direction |-> None ]
    ELSE [ status |-> "ok", lane_direction |-> Normalize(lane) ]

\* A displacement test that lets every movement through.
NeverTooSmall(movement) == FALSE

\* np.linalg.norm(movement) < self.min_displacement
TooSmall(movement) == Norm2(movement) < min_displacement * min_displacement

\* DirectionViolationDetector._compute_movement_vector
ComputeMovementVector(obj) ==
    IF Len(obj.centroid_history) < 2 THEN None
    ELSE IF TooSmall(<< obj.centroid_history[Len(obj.centroid_history)][1] - obj.centroid_history[1][1],
                       obj.centroid_history[Len(obj.centroid_history)][2] - obj.centroid_history[1][2] >>)
         THEN None
         ELSE << obj.centroid_history[Len(obj.centroid_history)][1] - obj.centroid_history[1][1],
                 obj.centroid_history[Len(obj.centroid_history)][2] - obj.centroid_history[1][2] >>

\* np.dot(movement, self.lane_direction)
Dot(movement, unit) == [ num |-> movement[1] * unit.x + movement[2] * unit.y, n2 |-> unit.n2 ]

\* A test that takes perpendicular motion for wrong-way motion.
WrongWayOrPerpendicular(dot_product) == dot_product.num <= 0

\* dot_product < 0
WrongWay(dot_product) == dot_product.num < 0

WrongWayEvent(obj, movement, dot_product, count, now) ==
    ViolationEvent("WRONG_WAY", obj.object_id, obj.confidence, now, None,
                   [ dot_product |-> dot_product, movement_vector |-> movement,
                     speed_px2 |-> Norm2(movement), consecutive_frames |-> count,
                     class |-> obj.class_name, bbox |-> obj.bbox ])

\* now - last_alert > self.cooldown_seconds
DirectionCooldownOver(now, last_alert) == now - last_alert > direction_cooldown_seconds

\* A skip that forgets the object's counter.
SkipDropsCounter(d, obj) ==
    [ counts |-> DictPop(d.counts, {obj.object_id}), alert |-> d.alert, events |-> d.events ]

\* `continue` for an object without a movement vector
Skip(d, obj) == d

\* A direction detector value is [lane, counts, alert, events].
\* the body of the loop over tracked_objects, for one object
DirectionVisit(d, lane, obj, now) ==
    IF ComputeMovementVector(obj) = None THEN Skip(d, obj)
    ELSE IF WrongWay(Dot(ComputeMovementVector(obj), lane))
    THEN IF DictGet(d.counts, obj.object_id, 0) + 1 >= direction_threshold
            /\ DirectionCooldownOver(now, DictGet(d.alert, obj.object_id, 0))
         THEN [ counts |-> DictPut(d.counts, obj.object_id, DictGet(d.counts, obj.object_id, 0) + 1),
                alert  |-> DictPut(d.alert, obj.object_id, now),
                events |-> Append(d.events,
                                  WrongWayEvent(obj, ComputeMovementVector(obj),
                                                Dot(ComputeMovementVector(obj), lane),
                                                DictGet(d.counts, obj.object_id, 0) + 1, now)) ]
         ELSE [ counts |-> DictPut(d.counts, obj.object_id, DictGet(d.counts, obj.object_id, 0) + 1),
                alert  |-> d.alert,
                events |-> d.events ]
    ELSE [ counts |-> DictPop(d.counts, {obj.object_id}), alert |-> d.alert, events |-> d.events ]

RECURSIVE DirectionLoop(_, _, _, _)
DirectionLoop(d, lane, objs, now) ==
    IF objs = <<>> THEN d
    ELSE DirectionLoop(DirectionVisit(d, lane, Head(objs), now), lane, Tail(objs), now)

\* stale_ids = set(self._wrong_way_counts.keys()) - active_ids
DirectionStaleIds(d, objs) == DOMAIN d.counts \ Ids(objs)

\* the cleanup that ends check
DirectionCleanup(d, objs) ==
    [ counts |-> DictPop(d.counts, DirectionStaleIds(d, objs)),
      alert  |-> DictPop(d.alert, DirectionStaleIds(d, objs)),
      events |-> d.events ]

\* DirectionViolationDetector.check(tracked_objects) with time.time() = now
DirectionCheck(d, lane, objs, now) ==
    DirectionCleanup(
        DirectionLoop([ counts |-> d.counts, alert |-> d.alert, events |-> <<>> ], lane, objs, now),
        objs)

----------------------------------------------------------------------------
(* State machine of one tracker instance *)

Tracker == [ objs |-> objects, nid |-> next_object_id, log |-> assigned ]

MissedAfter(old, t, t2, matchedIds) ==
    [ id \in DOMAIN old \cup Ids(t2.objs) |->
        IF id \notin DOMAIN old THEN 0
        ELSE IF id \notin Ids(t.objs) THEN old[id]
        ELSE IF id \in matchedIds THEN 0
        ELSE old[id] + 1 ]

TrackerInit ==
    /\ objects = <<>>
    /\ next_object_id = 0
    /\ frames = 0
    /\ last_op = "init"
    /\ dets = <<>>
    /\ pre_objects = <<>>
    /\ assigned = <<>>
    /\ missed = << >>
    /\ empties_before = 0
    /\ reset_from = -1

\* one call tracker.update(ds), the model exploring at most cap calls
UpdateWith(ds, cap) ==
    /\ frames < cap
    /\ \E order \in Orders(Tracker, ds) :
         LET t2 == UpdateResult(Tracker, ds, order)
         IN  /\ t2.nid <= MaxObjectId
             /\ objects' = t2.objs
             /\ next_object_id' = t2.nid
             /\ assigned' = t2.log
             /\ missed' = MissedAfter(missed, Tracker, t2, MatchedIds(Tracker, ds, order))
    /\ frames' = frames + 1
    /\ last_op' = "update"
    /\ dets' = ds
    /\ pre_objects' = objects
    /\ empties_before' = IF last_op = "update" /\ Len(dets) = 0 THEN empties_before + 1 ELSE 0
    /\ UNCHANGED reset_from

Update == \E ds \in FrameInputs : UpdateWith(ds, MaxFrames)

\* one call tracker.reset()
Reset ==
    /\ objects' = ResetResult.objs
    /\ next_object_id' = ResetResult.nid
    /\ assigned' = ResetResult.log
    /\ last_op' = "reset"
    /\ pre_objects' = objects
    /\ missed' = << >>
    /\ empties_before' = 0
    /\ reset_from' = next_object_id
    /\ UNCHANGED <<frames, dets>>

----------------------------------------------------------------------------
(* State machine of one zone detector *)

\* the object ids shown to the detector
ZoneIds == {0, 1}

Zone == [ dwell |-> dwell_counts, alert |-> last_alert_time, events |-> violations ]

\* tracked lists as the tracker returns them: distinct ids in increasing order
ZoneInputs ==
    { objs \in SeqsUpTo({ TrackedObject(id, d) : id \in ZoneIds, d \in DetectionUniverse },
                        Cardinality(ZoneIds)) :
        \A i \in 1..(Len(objs) - 1) : objs[i].object_id < objs[i + 1].object_id }

ListedInside(objs, id) ==
    \E i \in 1..Len(objs) : objs[i].object_id = id /\ IsInsideZone(objs[i].centroid)

EventTimeOf(events, id, default) ==
    IF \E i \in 1..Len(events) : events[i].object_id = id
    THEN events[CHOOSE i \in 1..Len(events) :
                  /\ events[i].object_id = id
                  /\ \A k \in (i + 1)..Len(events) : events[k].object_id # id].timestamp
    ELSE default

ZoneInit ==
    /\ dwell_counts = << >>
    /\ last_alert_time = << >>
    /\ clock = StartTime
    /\ check_time = StartTime
    /\ zone_input = << >>
    /\ violations = << >>
    /\ inside_run = [ id \in ZoneIds |-> 0 ]
    /\ last_event = [ id \in ZoneIds |-> -1 ]
    /\ prev_event = [ id \in ZoneIds |-> -1 ]
    /\ listed_since = [ id \in ZoneIds |-> FALSE ]
    /\ prev_listed_since = [ id \in ZoneIds |-> FALSE ]

\* the check of objs at time now returns an event for id
EventEmitted(objs, id, now) ==
    \E i \in 1..Len(ZoneCheck(Zone, objs, now).events) :
        ZoneCheck(Zone, objs, now).events[i].object_id = id

\* one call zone_detector.check(objs)
ZoneCheckWith(objs) ==
    /\ LET z2 == ZoneCheck(Zone, objs, clock)
       IN  /\ \A id \in DOMAIN z2.dwell : z2.dwell[id] <= MaxDwell
           /\ dwell_counts' = z2.dwell
           /\ last_alert_time' = z2.alert
           /\ violations' = z2.events
           /\ last_event' = [ id \in ZoneIds |-> EventTimeOf(z2.events, id, last_event[id]) ]
    /\ zone_input' = objs
    /\ inside_run' = [ id \in ZoneIds |->
                         IF ListedInside(objs, id) THEN inside_run[id] + 1 ELSE 0 ]
    /\ prev_event' = last_event
    /\ listed_since' = [ id \in ZoneIds |->
                           /\ id \in Ids(objs)
                           /\ \/ listed_since[id]
                              \/ EventEmitted(objs, id, clock) ]
    /\ prev_listed_since' = listed_since
    /\ check_time' = clock
    /\ UNCHANGED clock

CheckZone == \E objs \in ZoneInputs : ZoneCheckWith(objs)

\* a second passes on the wall clock
Tick ==
    /\ clock < StartTime + MaxElapsed
    /\ clock' = clock + 1
    /\ UNCHANGED <<dwell_counts, last_alert_time, check_time, zone_input, violations,
                   inside_run, last_event, prev_event, listed_since, prev_listed_since>>

----------------------------------------------------------------------------
(* State machine of one direction detector and the settings beside it *)

\* the object ids shown to the detector
DirectionIds == {0, 1}

Direction == [ counts |-> wrong_way_counts, alert |-> dir_last_alert_time,
               events |-> dir_violations ]

\* centroid histories, oldest first, along the x axis unless said otherwise:
\* one point; a move of min_displacement - 1 against the x axis; a move of
\* exactly min_displacement against it (ending outside the polygon); one of
\* min_displacement along it; one of min_displacement along the y axis
HistoryUniverse ==
    { << <<2, 1>> >>,
      << <<1 + min_displacement, 1>>, <<2, 1>> >>,
      << <<4 + min_displacement, 1>>, <<5, 1>>, <<4, 1>> >>,
      << <<1, 1>>, <<2, 1>>, <<1 + min_displacement, 1>> >>,
      << <<2, 1>>, <<2, 1 + min_displacement>> >> }

\* a track as the tracker holds it after the frames of history h
TrackedWithHistory(id, h) ==
    Track(id, h[Len(h)], <<h[Len(h)][1] - 1, h[Len(h)][2] - 1, h[Len(h)][1] + 1, h[Len(h)][2] + 1>>,
          2, VEHICLE_CLASS_IDS[2], 90, 0, h, Len(h))

\* tracked lists as the tracker returns them: distinct ids in increasing order
\* the histories of HistoryUniverse that yield a movement vector along the x axis
MovingHistories == { h \in HistoryUniverse : Len(h) = 3 }

\* tracked lists as the tracker returns them: distinct ids in increasing order;
\* object 0 with any history, object 1 moving along the x axis one way or the other
DirectionInputs ==
    { objs \in SeqsUpTo({ TrackedWithHistory(0, h) : h \in HistoryUniverse }
                          \cup { TrackedWithHistory(1, h) : h \in MovingHistories },
                        Cardinality(DirectionIds)) :
        \A i \in 1..(Len(objs) - 1) : objs[i].object_id < objs[i + 1].object_id }

\* lane directions a checked detector is built with, the zero vector among them
CheckedLanes == { <<0, 0>>, <<2, 0>> }

\* every lane direction with components in -MaxLane..MaxLane
LaneInputs == (-MaxLane..MaxLane) \X (-MaxLane..MaxLane)

Listed(objs, id) == \E i \in 1..Len(objs) : objs[i].object_id = id

ListedAt(objs, id) == objs[CHOOSE i \in 1..Len(objs) : objs[i].object_id = id]

\* newest history centroid minus oldest, as the checks see the object
Displacement(obj) ==
    << obj.centroid_history[Len(obj.centroid_history)][1] - obj.centroid_history[1][1],
       obj.centroid_history[Len(obj.centroid_history)][2] - obj.centroid_history[1][2] >>

\* the object has two history points at least min_displacement apart
HasMovement(obj) ==
    /\ Len(obj.centroid_history) >= 2
    /\ Norm2(Displacement(obj)) >= min_displacement * min_displacement

\* sign of the dot product of the object's displacement with the lane the
\* detector was built for: negative, zero or positive
LaneDot(obj) == Displacement(obj)[1] * lane_input[1] + Displacement(obj)[2] * lane_input[2]

DirectionMachineInit ==
    /\ dir_status = "none"
    /\ lane_input = None
    /\ lane_direction = None
    /\ direction_zone = None
    /\ wrong_way_counts = << >>
    /\ dir_last_alert_time = << >>
    /\ dir_clock = direction_cooldown_seconds + 1
    /\ dir_check_time = direction_cooldown_seconds + 1
    /\ dir_input = << >>
    /\ dir_violations = << >>
    /\ pre_wrong_way_counts = << >>
    /\ pre_dir_alert_time = << >>
    /\ wrong_run = [ id \in DirectionIds |-> 0 ]
    /\ still_run = [ id \in DirectionIds |-> 0 ]
    /\ moved_ever = [ id \in DirectionIds |-> FALSE ]
    /\ dir_last_event = [ id \in DirectionIds |-> -1 ]
    /\ dir_prev_event = [ id \in DirectionIds |-> -1 ]

\* DirectionViolationDetector(lane_direction=lane) under a direction_zone_polygon setting
Construct(lane, setting) ==
    /\ dir_status = "none"
    /\ dir_status' = DirectionInit(lane).status
    /\ lane_direction' = DirectionInit(lane).lane_direction
    /\ lane_input' = lane
    /\ direction_zone' = GetDirectionZonePolygon(setting)
    /\ UNCHANGED <<wrong_way_counts, dir_last_alert_time, dir_clock, dir_check_time, dir_input,
                   dir_violations, pre_wrong_way_counts, pre_dir_alert_time, wrong_run,
                   still_run, moved_ever, dir_last_event, dir_prev_event>>

\* the detector that is checked is built with the direction zone configured
ConstructChecked ==
    \E lane \in CheckedLanes :
        \E setting \in { x \in DirectionZoneSettings : GetDirectionZonePolygon(x) # None } :
            Construct(lane, setting)

ConstructAny == \E lane \in LaneInputs, setting \in DirectionZoneSettings : Construct(lane, setting)

\* one call direction_detector.check(objs)
DirectionCheckWith(objs) ==
    /\ dir_status = "ok"
    /\ LET d2 == DirectionCheck(Direction, lane_direction, objs, dir_clock)
       IN  /\ \A id \in DOMAIN d2.counts : d2.counts[id] <= MaxWrongWay
           /\ wrong_way_counts' = d2.counts
           /\ dir_last_alert_time' = d2.alert
           /\ dir_violations' = d2.events
           /\ dir_last_event' =
                [ id \in DirectionIds |-> EventTimeOf(d2.events, id, dir_last_event[id]) ]
    /\ dir_input' = objs
    /\ pre_wrong_way_counts' = wrong_way_counts
    /\ pre_dir_alert_time' = dir_last_alert_time
    /\ wrong_run' =
         [ id \in DirectionIds |->
             IF ~Listed(objs, id) THEN 0
             ELSE IF ~HasMovement(ListedAt(objs, id)) THEN wrong_run[id]
             ELSE IF LaneDot(ListedAt(objs, id)) < 0 THEN wrong_run[id] + 1
             ELSE 0 ]
    /\ still_run' =
         [ id \in DirectionIds |->
             IF Listed(objs, id) /\ ~HasMovement(ListedAt(objs, id))
             THEN (IF still_run[id] < direction_threshold THEN still_run[id] + 1
                   ELSE still_run[id])
             ELSE 0 ]
    /\ moved_ever' =
         [ id \in DirectionIds |->
             \/ moved_ever[id]
             \/ Listed(objs, id) /\ HasMovement(ListedAt(objs, id)) ]
    /\ dir_prev_event' = dir_last_event
    /\ dir_check_time' = dir_clock
    /\ UNCHANGED <<dir_status, lane_input, lane_direction, direction_zone, dir_clock>>

CheckDirection == \E objs \in DirectionInputs : DirectionCheckWith(objs)

\* a second passes on the wall clock
DirectionTick ==
    /\ dir_status = "ok"
    /\ dir_clock < direction_cooldown_seconds + 1 + MaxDirectionElapsed
    /\ dir_clock' = dir_clock + 1
    /\ UNCHANGED <<dir_status, lane_input, lane_direction, direction_zone, wrong_way_counts,
                   dir_last_alert_time, dir_check_time, dir_input, dir_violations,
                   pre_wrong_way_counts, pre_dir_alert_time, wrong_run, still_run, moved_ever,
                   dir_last_event, dir_prev_event>>

----------------------------------------------------------------------------
(* backend/vision/violation_manager.py and the settings it reads *)
(* A snapshot path is <<violation_type, object_id, second>>, standing for   *)
(* snapshot_dir / "{type}_{id}_{time}.jpg".                                 *)

\* the zone_polygon settings explored: four vertices, two vertices, broken JSON
ZonePolygonSettings == { "[[1,0],[3,0],[3,2],[1,2]]", "[[1,0],[3,0]]", "[[1,0],[3" }

\* Settings.get_zone_polygon: json.loads of the setting, which raises on broken JSON
GetZonePolygon(setting) ==
    IF setting = "[[1,0],[3,0],[3,2],[1,2]]" THEN [ raised |-> FALSE, value |-> polygon ]
    ELSE IF setting = "[[1,0],[3,0]]"
         THEN [ raised |-> FALSE, value |-> << <<1, 0>>, <<3, 0>> >> ]
         ELSE [ raised |-> TRUE, value |-> None ]

\* the enabled_violations settings explored
EnabledViolationsSettings == { "all", "ILLEGAL_PARKING", "WRONG_WAY" }

Settings(zp, lane, dwell, dir, enabled) ==
    [ zone_polygon |-> zp, lane_direction |-> lane, dwell_threshold |-> dwell,
      direction_threshold |-> dir, enabled_violations |-> enabled ]

\* ViolationManager.__init__: builds the zone detector, then the direction
\* detector; neither the settings nor ZoneViolationDetector.__init__ checks a value
ManagerInit(st) ==
    IF GetZonePolygon(st.zone_polygon).raised THEN "error"
    ELSE IF DirectionInit(st.lane_direction).status = "error" THEN "error"
    ELSE "ok"

\* str(self.snapshot_dir / filename)
SnapshotPath(violation, now) == << violation.violation_type, violation.object_id, now >>


\* ViolationManager._capture_snapshot: the value returned; cv2.imwrite's result is not read
CaptureSnapshot(violation, now, written) == SnapshotPath(violation, now)

\* the payload of ViolationManager._dispatch_alert
Payload(violation, snapshot_path) ==
    [ violation_type |-> violation.violation_type, confidence |-> violation.confidence,
      object_id |-> violation.object_id, snapshot_path |-> snapshot_path,
      zone_id |-> violation.zone_id, metadata |-> violation.metadata ]

\* what one client.post can end in: a status code or an httpx.RequestError
PostOutcomes == { "200", "500", "timeout", "refused" }

\* what the environment does to one event: whether cv2.imwrite writes the
\* file and how the POST ends
Outcomes == [ written : BOOLEAN, post : PostOutcomes ]

\* A counter update that skips the per-type counter.
CountTotalOnly(by_type, vtype) == by_type

\* self._violations_by_type[vtype] = self._violations_by_type.get(vtype, 0) + 1
CountType(by_type, vtype) == DictPut(by_type, vtype, DictGet(by_type, vtype, 0) + 1)

\* A dispatch that gives up on the remaining events after a failed POST.
StopAfterFailure(outs, i) == \E k \in 1..(i - 1) : outs[k].post # "200"

\* _dispatch_alert returns normally whatever the POST ended in, so the loop goes on
Aborted(outs, i) == FALSE

\* A manager value is [total, by_type, effects, files].
\* the body of the loop over all_violations, for event i
ProcessViolation(m, events, i, now, outs) ==
    [ total   |-> m.total + 1,
      by_type |-> CountType(m.by_type, events[i].violation_type),
      effects |-> m.effects \o
                  << [ op |-> "count", event |-> i, snapshot_path |-> None, result |-> "" ],
                     [ op |-> "snapshot", event |-> i,
                       snapshot_path |-> SnapshotPath(events[i], now),
                       result |-> IF outs[i].written THEN "written" ELSE "failed" ],
                     [ op |-> "post", event |-> i,
                       snapshot_path |-> Payload(events[i],
                                                 CaptureSnapshot(events[i], now, outs[i].written)
                                                ).snapshot_path,
                       result |-> outs[i].post ] >>,
      files   |-> IF outs[i].written THEN m.files \cup { SnapshotPath(events[i], now) }
                  ELSE m.files ]

RECURSIVE ProcessFrom(_, _, _, _, _)
ProcessFrom(m, events, i, now, outs) ==
    IF i > Len(events) \/ Aborted(outs, i) THEN m
    ELSE ProcessFrom(ProcessViolation(m, events, i, now, outs), events, i + 1, now, outs)


\* all_violations.extend(zone_violations); all_violations.extend(direction_violations)
AllViolations(zone_violations, direction_violations) == zone_violations \o direction_violations

----------------------------------------------------------------------------
(* State machine of one ViolationManager *)

\* the one track shown to the manager
ManagerIds == {0}

\* the track inside the zone moving against the lane, inside it with a single
\* history point, outside it moving against the lane, outside it moving with the lane
ManagerHistories ==
    { << <<2 + min_displacement, 1>>, <<3, 1>>, <<2, 1>> >>,
      << <<2, 1>> >>,
      << <<4 + min_displacement, 1>>, <<5, 1>>, <<4, 1>> >>,
      << <<4, 1>>, <<4 + min_displacement, 1>> >> }

\* tracked lists as the tracker returns them
ManagerInputs ==
    { << >> } \cup { << TrackedWithHistory(id, h) >> : id \in ManagerIds, h \in ManagerHistories }

\* the settings a checked manager is built from: those of the zone and
\* direction detectors of this model, with any enabled_violations
CheckedSettings ==
    { Settings("[[1,0],[3,0],[3,2],[1,2]]", <<2, 0>>, dwell_threshold, direction_threshold, en) :
        en \in EnabledViolationsSettings }

\* every combination of the settings explored
AllSettings ==
    { Settings(zp, lane, dw, dr, en) :
        zp \in ZonePolygonSettings, lane \in { <<0, 0>>, <<2, 0>> },
        dw \in -1..MaxThreshold, dr \in -1..MaxThreshold, en \in EnabledViolationsSettings }

ManagerTimes == StartTime..(StartTime + MaxManagerElapsed)

MaxTime(events, id, default) ==
    IF \E i \in 1..Len(events) : events[i].object_id = id
    THEN SetMin({ t \in { events[i].timestamp : i \in 1..Len(events) } \cup {default} :
                    \A i \in 1..Len(events) :
                        events[i].object_id = id => t >= events[i].timestamp })
    ELSE default

ManagerMachineInit ==
    /\ mgr_status = "none"
    /\ settings = None
    /\ zone_detector = [ dwell |-> << >>, alert |-> << >> ]
    /\ direction_detector = [ counts |-> << >>, alert |-> << >> ]
    /\ total_violations = 0
    /\ violations_by_type = << >>
    /\ mgr_clock = StartTime
    /\ mgr_input = << >>
    /\ all_violations = << >>
    /\ effects = << >>
    /\ snapshot_files = {}
    /\ returned_total = 0
    /\ calls = 0
    /\ max_event_time = [ id \in ManagerIds |-> -1 ]
    /\ prev_max_event_time = [ id \in ManagerIds |-> -1 ]

\* ViolationManager() under the settings st
StartManager(st) ==
    /\ mgr_status = "none"
    /\ mgr_status' = ManagerInit(st)
    /\ settings' = st
    /\ UNCHANGED <<zone_detector, direction_detector, total_violations, violations_by_type,
                   mgr_clock, mgr_input, all_violations, effects, snapshot_files,
                   returned_total, calls, max_event_time, prev_max_event_time>>

StartChecked == \E st \in CheckedSettings : StartManager(st)

StartAny == \E st \in AllSettings : StartManager(st)

\* one call violation_manager.check_violations(objs, frame), the environment
\* treating each event in one of the ways of outcomes
CheckViolationsUnder(objs, outcomes) ==
    /\ mgr_status = "ok"
    /\ calls < MaxCalls
    /\ LET z2  == ZoneCheck([ dwell |-> zone_detector.dwell, alert |-> zone_detector.alert,
                             events |-> << >> ], objs, mgr_clock)
           d2  == DirectionCheck([ counts |-> direction_detector.counts,
                                   alert |-> direction_detector.alert, events |-> << >> ],
                                 DirectionInit(settings.lane_direction).lane_direction,
                                 objs, mgr_clock)
           evs == AllViolations(z2.events, d2.events)
       IN  /\ \A id \in DOMAIN z2.dwell : z2.dwell[id] <= MaxDwell
           /\ \A id \in DOMAIN d2.counts : d2.counts[id] <= MaxWrongWay
           /\ zone_detector' = [ dwell |-> z2.dwell, alert |-> z2.alert ]
           /\ direction_detector' = [ counts |-> d2.counts, alert |-> d2.alert ]
           /\ all_violations' = evs
           /\ returned_total' = returned_total + Len(evs)
           /\ max_event_time' =
                [ id \in ManagerIds |-> MaxTime(evs, id, max_event_time[id]) ]
           /\ \E outs \in [ 1..Len(evs) -> outcomes ] :
                LET m2 == ProcessFrom([ total |-> total_violations,
                                        by_type |-> violations_by_type,
                                        effects |-> << >>, files |-> snapshot_files ],
                                      evs, 1, mgr_clock, outs)
                IN  /\ total_violations' = m2.total
                    /\ violations_by_type' = m2.by_type
                    /\ effects' = m2.effects
                    /\ snapshot_files' = m2.files
    /\ mgr_input' = objs
    /\ calls' = calls + 1
    /\ prev_max_event_time' = max_event_time
    /\ UNCHANGED <<mgr_status, settings, mgr_clock>>

\* one call violation_manager.check_violations(objs, frame)
CheckViolationsWith(objs) == CheckViolationsUnder(objs, Outcomes)

CheckViolations == \E objs \in ManagerInputs : CheckViolationsWith(objs)

\* the wall clock moves between two frames: time passes, or the system clock
\* is set back
ClockMoves ==
    /\ mgr_status = "ok"
    /\ \E t \in ManagerTimes \ {mgr_clock} : mgr_clock' = t
    /\ UNCHANGED <<mgr_status, settings, zone_detector, direction_detector, total_violations,
                   violations_by_type, mgr_input, all_violations, effects, snapshot_files,
                   returned_total, calls, max_event_time, prev_max_event_time>>

----------------------------------------------------------------------------
(* backend/vision/pipeline.py: VideoPipeline.run *)

\* the max_frames arguments explored: None, or << n >> for the integer n
MaxFramesArgs == { None } \cup { << n >> : n \in 0..MaxCap }

\* `if max_frames and frame_count > max_frames`: None and 0 are false
CapExceeded(mf, count) == mf # None /\ mf[1] # 0 /\ count > mf[1]

\* the keys cv2.waitKey(1) & 0xFF can deliver: 'q', ESC, another key, none
Keys == { 113, 27, 97, 255 }

\* `if key in (ord("q"), 27)`
IsQuitKey(key) == key \in { 113, 27 }

\* A loop whose clean-up follows it instead of standing in a finally clause.
CleanUpAfterLoop(why) == IF why = "raise" THEN "raised" ELSE "finally"

\* where control goes when the loop is left: the finally clause, whatever the cause
LeaveLoop(why) == "finally"

\* A loop that logs an inference error and goes on with the frame.
GoOnAfterRaise(step, raises) == step

\* where control goes after a step of the loop body: on, or out with the exception
AfterStep(step, raises) == IF raises THEN LeaveLoop("raise") ELSE step

Marks == [ frames_read |-> frames_read, detect_calls |-> detect_calls,
           track_calls |-> track_calls, check_calls |-> check_calls,
           show_calls |-> show_calls ]

PipelineInit ==
    /\ pipe_pc = "idle"
    /\ source_frames = 0
    /\ display = FALSE
    /\ max_frames = None
    /\ frames_read = 0
    /\ frame_count = 0
    /\ detect_calls = 0
    /\ track_calls = 0
    /\ check_calls = 0
    /\ show_calls = 0
    /\ cap_released = FALSE
    /\ windows_destroyed = FALSE
    /\ reported_frames = None
    /\ cause = ""
    /\ raised_in = ""
    /\ leave_marks = None

\* run(display, max_frames) up to the loop: the capture opens, or RuntimeError
RunStart ==
    /\ pipe_pc = "idle"
    /\ \E n \in 0..MaxSourceFrames, d \in BOOLEAN, mf \in MaxFramesArgs, opened \in BOOLEAN :
         /\ source_frames' = n
         /\ display' = d
         /\ max_frames' = mf
         /\ pipe_pc' = IF opened THEN "read" ELSE "open_failed"
    /\ UNCHANGED <<frames_read, frame_count, detect_calls, track_calls, check_calls,
                   show_calls, cap_released, windows_destroyed, reported_frames, cause,
                   raised_in, leave_marks>>

\* cap.read(), the end-of-stream test, frame_count += 1 and the cap test
ReadFrame ==
    /\ pipe_pc = "read"
    /\ IF frames_read >= source_frames
       THEN /\ cause' = "eos"
            /\ pipe_pc' = LeaveLoop("eos")
            /\ leave_marks' = Marks
            /\ UNCHANGED <<frames_read, frame_count>>
       ELSE /\ frames_read' = frames_read + 1
            /\ frame_count' = frame_count + 1
            /\ IF CapExceeded(max_frames, frame_count + 1)
               THEN /\ cause' = "cap"
                    /\ pipe_pc' = LeaveLoop("cap")
                    /\ leave_marks' = [ frames_read |-> frames_read + 1,
                                        detect_calls |-> detect_calls,
                                        track_calls |-> track_calls,
                                        check_calls |-> check_calls,
                                        show_calls |-> show_calls ]
               ELSE /\ pipe_pc' = "detect"
                    /\ UNCHANGED <<cause, leave_marks>>
    /\ UNCHANGED <<source_frames, display, max_frames, detect_calls, track_calls,
                   check_calls, show_calls, cap_released, windows_destroyed,
                   reported_frames, raised_in>>

\* self.detector.detect(frame), which may raise
DetectStep ==
    /\ pipe_pc = "detect"
    /\ \E raises \in BOOLEAN :
         /\ pipe_pc' = AfterStep("track", raises)
         /\ detect_calls' = IF raises THEN detect_calls ELSE detect_calls + 1
         /\ cause' = IF raises THEN "raise" ELSE cause
         /\ raised_in' = IF raises THEN "detect" ELSE raised_in
         /\ leave_marks' = IF raises THEN Marks ELSE leave_marks
    /\ UNCHANGED <<source_frames, display, max_frames, frames_read, frame_count,
                   track_calls, check_calls, show_calls, cap_released, windows_destroyed,
                   reported_frames>>

\* self.tracker.update(detections), which may raise
TrackStep ==
    /\ pipe_pc = "track"
    /\ \E raises \in BOOLEAN :
         /\ pipe_pc' = AfterStep("check", raises)
         /\ track_calls' = IF raises THEN track_calls ELSE track_calls + 1
         /\ cause' = IF raises THEN "raise" ELSE cause
         /\ raised_in' = IF raises THEN "track" ELSE raised_in
         /\ leave_marks' = IF raises THEN Marks ELSE leave_marks
    /\ UNCHANGED <<source_frames, display, max_frames, frames_read, frame_count,
                   detect_calls, check_calls, show_calls, cap_released, windows_destroyed,
                   reported_frames>>

\* self.violation_manager.check_violations(tracked_objects, frame) and the
\* confirmed_violations bookkeeping, which may raise
CheckStep ==
    /\ pipe_pc = "check"
    /\ \E raises \in BOOLEAN :
         /\ pipe_pc' = AfterStep(IF display THEN "display" ELSE "read", raises)
         /\ check_calls' = IF raises THEN check_calls ELSE check_calls + 1
         /\ cause' = IF raises THEN "raise" ELSE cause
         /\ raised_in' = IF raises THEN "check" ELSE raised_in
         /\ leave_marks' = IF raises THEN Marks ELSE leave_marks
    /\ UNCHANGED <<source_frames, display, max_frames, frames_read, frame_count,
                   detect_calls, track_calls, show_calls, cap_released, windows_destroyed,
                   reported_frames>>

\* the display block: annotate, cv2.imshow, cv2.waitKey, quit on 'q' or ESC
DisplayStep ==
    /\ pipe_pc = "display"
    /\ \E raises \in BOOLEAN, key \in Keys :
         IF raises
         THEN /\ pipe_pc' = AfterStep("read", TRUE)
              /\ cause' = "raise"
              /\ raised_in' = "display"
              /\ leave_marks' = Marks
              /\ UNCHANGED show_calls
         ELSE /\ show_calls' = show_calls + 1
              /\ raised_in' = raised_in
              /\ IF IsQuitKey(key)
                 THEN /\ cause' = "quit"
                      /\ pipe_pc' = LeaveLoop("quit")
                      /\ leave_marks' = [ frames_read |-> frames_read,
                                          detect_calls |-> detect_calls,
                                          track_calls |-> track_calls,
                                          check_calls |-> check_calls,
                                          show_calls |-> show_calls + 1 ]
                 ELSE /\ pipe_pc' = "read"
                      /\ UNCHANGED <<cause, leave_marks>>
    /\ UNCHANGED <<source_frames, display, max_frames, frames_read, frame_count,
                   detect_calls, track_calls, check_calls, cap_released, windows_destroyed,
                   reported_frames>>

\* the finally clause: release, destroy the windows in display mode, log the totals
Finally ==
    /\ pipe_pc = "finally"
    /\ cap_released' = TRUE
    /\ windows_destroyed' = display
    /\ reported_frames' = << frame_count >>
    /\ pipe_pc' = IF cause = "raise" THEN "raised" ELSE "returned"
    /\ UNCHANGED <<source_frames, display, max_frames, frames_read, frame_count,
                   detect_calls, track_calls, check_calls, show_calls, cause, raised_in,
                   leave_marks>>

----------------------------------------------------------------------------
(* backend/vision/detector.py: YOLODetector._postprocess                    *)
(* Scores and confidences are in hundredths, NaN standing for a float that  *)
(* is not a number. Box values are whole letterbox pixels, the scale is a   *)
(* fraction, and the arithmetic is exact. The rows are those of the tensor  *)
(* after the squeeze and the transposition.                                 *)

\* YOLODetector(confidence_threshold=0.45), in hundredths
confidence_threshold == 45

NaN == -1000

\* a < b on floats: false when either side is not a number
FloatLess(a, b) == a # NaN /\ b # NaN /\ a < b

\* np.argmax(class_scores): the first NaN if there is one, else the first
\* largest score; class ids count from 0
ArgMax(class_scores) ==
    IF \E i \in 1..Len(class_scores) : class_scores[i] = NaN
    THEN SetMin({ i \in 1..Len(class_scores) : class_scores[i] = NaN }) - 1
    ELSE SetMin({ i \in 1..Len(class_scores) :
                    \A k \in 1..Len(class_scores) : class_scores[k] <= class_scores[i] }) - 1

\* int(a / b): the quotient cut toward zero
IntOfQuotient(a, b) ==
    IF b < 0 THEN (IF a <= 0 THEN (-a) \div (-b) ELSE -(a \div (-b)))
    ELSE (IF a >= 0 THEN a \div b ELSE -((-a) \div b))

RescaleWithPadding(c, bw, sign, p, sc) ==
    IntOfQuotient((2 * c + sign * bw) * sc[2], 2 * sc[1])

\* int((c - bw / 2 - pad) / scale) for sign = -1 and int((c + bw / 2 - pad) / scale)
\* for sign = 1, where c is a box centre and bw its extent
Rescale(c, bw, sign, p, sc) ==
    IntOfQuotient((2 * c + sign * bw - 2 * p) * sc[2], 2 * sc[1])

Min2(a, b) == IF a < b THEN a ELSE b

Max2(a, b) == IF a > b THEN a ELSE b

\* max(0, min(x, limit - 1))
Clamp(x, limit) == Max2(0, Min2(x, limit - 1))

\* the box of a row in the original frame, after rescaling and clamping
BoxOf(pred, sc, pd, shape) ==
    << Clamp(Rescale(pred.box[1], pred.box[3], -1, pd[1], sc), shape[2]),
       Clamp(Rescale(pred.box[2], pred.box[4], -1, pd[2], sc), shape[1]),
       Clamp(Rescale(pred.box[1], pred.box[3], 1, pd[1], sc), shape[2]),
       Clamp(Rescale(pred.box[2], pred.box[4], 1, pd[2], sc), shape[1]) >>

\* the three `continue` tests of the loop
Skipped(pred, sc, pd, shape) ==
    \/ FloatLess(pred.class_scores[ArgMax(pred.class_scores) + 1], confidence_threshold)
    \/ ArgMax(pred.class_scores) \notin DOMAIN VEHICLE_CLASS_IDS
    \/ BoxOf(pred, sc, pd, shape)[3] <= BoxOf(pred, sc, pd, shape)[1]
    \/ BoxOf(pred, sc, pd, shape)[4] <= BoxOf(pred, sc, pd, shape)[2]

RECURSIVE Postprocess(_, _, _, _)
Postprocess(preds, sc, pd, shape) ==
    IF preds = << >> THEN << >>
    ELSE IF Skipped(Head(preds), sc, pd, shape)
         THEN Postprocess(Tail(preds), sc, pd, shape)
         ELSE << Detection(BoxOf(Head(preds), sc, pd, shape),
                           ArgMax(Head(preds).class_scores),
                           Head(preds).class_scores[ArgMax(Head(preds).class_scores) + 1]) >>
              \o Postprocess(Tail(preds), sc, pd, shape)

\* boxes << cx, cy, bw, bh >>: inside the frame, over its left edge, beyond
\* its right edge, of no width, of negative width
Boxes == { <<3, 3, 4, 4>>, <<0, 3, 4, 2>>, <<9, 3, 4, 4>>, <<3, 3, 0, 4>>, <<3, 3, -2, 2>> }

\* class scores over the classes 0..7: one class at score s, the others at 10
ScoresWith(class_id, s) == [ i \in 1..8 |-> IF i = class_id + 1 THEN s ELSE 10 ]

ClassScores ==
    { ScoresWith(class_id, s) : class_id \in { 0, 2, 7 }, s \in { 30, 45, 90, NaN } }
    \cup { [ i \in 1..8 |-> IF i \in { 2, 3 } THEN 90 ELSE 10 ] }

Predictions == { [ box |-> b, class_scores |-> cs ] : b \in Boxes, cs \in ClassScores }

\* frames << orig_h, orig_w >>
Shapes == { <<1, 1>>, <<3, 4>>, <<6, 8>> }

\* letterbox scales 1/2, 1 and 2
Scales == { <<1, 2>>, <<1, 1>>, <<2, 1>> }

Pads == { <<0, 0>>, <<1, 2>> }

PostprocessInit ==
    /\ original_shape = <<1, 1>>
    /\ scale = <<1, 1>>
    /\ pad = <<0, 0>>
    /\ predictions = << >>
    /\ detections = << >>
    /\ postprocess_calls = 0

\* self._postprocess(output, scale, pad, original_shape)
PostprocessCall ==
    /\ postprocess_calls = 0
    /\ \E output \in SeqsUpTo(Predictions, MaxPredictions),
          sc \in Scales, pd \in Pads, shape \in Shapes :
         /\ predictions' = output
         /\ scale' = sc
         /\ pad' = pd
         /\ original_shape' = shape
         /\ detections' = Postprocess(output, sc, pd, shape)
    /\ postprocess_calls' = 1

----------------------------------------------------------------------------
(* backend/vision/detector.py: YOLODetector._preprocess and detect.  The    *)
(* letterbox target is TargetSize pixels square; scales are fractions.      *)

\* YOLODetector(input_size=...): (width, height)
input_size == << TargetSize, TargetSize >>

\* scale = min(target_w / w, target_h / h) for a frame << h, w >>
LetterboxScale(shape) ==
    IF input_size[1] * shape[1] <= input_size[2] * shape[2]
    THEN << input_size[1], shape[2] >>
    ELSE << input_size[2], shape[1] >>

\* new_w, new_h = int(w * scale), int(h * scale)
NewSize(shape) ==
    << IntOfQuotient(shape[2] * LetterboxScale(shape)[1], LetterboxScale(shape)[2]),
       IntOfQuotient(shape[1] * LetterboxScale(shape)[1], LetterboxScale(shape)[2]) >>

\* pad_x, pad_y: the resized frame is centred on the canvas
LetterboxPad(shape) ==
    << (input_size[1] - NewSize(shape)[1]) \div 2, (input_size[2] - NewSize(shape)[2]) \div 2 >>

\* where the letterbox puts coordinate x of the frame: the frame is resized
\* by the scale and pasted at the padding; the result is a fraction
ToModel(x, sc, p) == << x * sc[1] + p * sc[2], sc[2] >>

\* frames << h, w >>: twice the target, wide and tall ones, the target itself,
\* and frames smaller than the target
FrameShapes ==
    { << 2 * TargetSize, 2 * TargetSize >>, << TargetSize, 2 * TargetSize >>,
      << TargetSize + 4, TargetSize + 2 >>, << TargetSize, TargetSize >>,
      << TargetSize - 2, TargetSize >>, << 4, 4 >>, << 3, 4 >>, << 2, 2 >> }

\* the boxes the network reports, in letterbox pixels
LetterboxBoxes ==
    { << cx, cy, bw, bh >> : cx \in 1..(TargetSize - 1), cy \in 1..(TargetSize - 1),
                             bw \in 1..MaxExtent, bh \in 1..MaxExtent }

\* self.detect(frame), the network reporting one car
Detect ==
    \E shape \in FrameShapes, b \in LetterboxBoxes :
      /\ postprocess_calls = 0
      /\ original_shape' = shape
      /\ scale' = LetterboxScale(shape)
      /\ pad' = LetterboxPad(shape)
      /\ predictions' = << [ box |-> b, class_scores |-> ScoresWith(2, 90) ] >>
      /\ detections' = Postprocess(predictions', scale', pad', shape)
      /\ postprocess_calls' = 1

----------------------------------------------------------------------------
(* backend/vision/pipeline.py: one frame of the loop of VideoPipeline.run,  *)
(* from tracker.update to the confirmed_violations bookkeeping              *)

\* the detections a frame of the run is drawn from: centres (2,1) inside the
\* zone, (4,1) and (6,1) outside it
RunDetections ==
    { Detection(<<1, 0, 3, 2>>, 2, 90),
      Detection(<<3, 0, 5, 2>>, 2, 90),
      Detection(<<5, 0, 7, 2>>, 7, 50) }

RunInputs == SeqsUpTo(RunDetections, MaxDets)

\* An update that returns the tracks it has just matched or registered only.
ReturnedDetected(objs) ==
    LET Detected(o) == o.disappeared = 0 IN SelectSeq(objs, Detected)

\* return list(self.objects.values())
Returned(objs) == objs

RECURSIVE Confirm(_, _)
\* for v in violations: confirmed_violations[v.object_id] = v.violation_type
Confirm(confirmed, events) ==
    IF events = << >> THEN confirmed
    ELSE Confirm(DictPut(confirmed, Head(events).object_id, Head(events).violation_type),
                 Tail(events))

\* A bookkeeping that never removes an entry.
KeepStale(confirmed, dwell) == confirmed

\* stale = [oid for oid in confirmed_violations if oid not in active_dwell_ids],
\* then confirmed_violations.pop(oid, None) for each
DropStale(confirmed, dwell) == DictPop(confirmed, DOMAIN confirmed \ DOMAIN dwell)

\* the environment of the run: every snapshot is written and every POST accepted
RunOutcomes == { [ written |-> TRUE, post |-> "200" ] }

\* the settings of the run
RunSettings ==
    { Settings("[[1,0],[3,0],[3,2],[1,2]]", <<2, 0>>, dwell_threshold, direction_threshold, "all") }

\* VideoPipeline.__init__ building its ViolationManager
StartRun == \E st \in RunSettings : StartManager(st)

FramesInit ==
    /\ confirmed_violations = << >>
    /\ dwell_before = << >>
    /\ wrong_way_before = << >>

\* one pass of the loop body: tracker.update, check_violations, bookkeeping
ProcessFrameWith(ds) ==
    /\ UpdateWith(ds, MaxFrames)
    /\ CheckViolationsUnder(Returned(objects'), RunOutcomes)
    /\ confirmed_violations' =
         DropStale(Confirm(confirmed_violations, all_violations'), zone_detector'.dwell)
    /\ dwell_before' = zone_detector.dwell
    /\ wrong_way_before' = direction_detector.counts

ProcessFrame == \E ds \in RunInputs : ProcessFrameWith(ds)

----------------------------------------------------------------------------
(* backend/api: POST /api/alerts (schemas.py, routes.py, models.py,        *)
(* database.py) and the WebSocket connection manager (ws.py).  Confidences *)
(* are in hundredths.                                                      *)

Clients == 1..MaxClients

\* the elements of a list of connections
Members(conns) == { conns[i] : i \in 1..Len(conns) }

\* a request body: the fields AlertCreate constrains
AlertBody(vtype, conf, oid) == [ violation_type |-> vtype, confidence |-> conf, object_id |-> oid ]

\* the bodies posted: two that validate, at the ends of the permitted ranges,
\* and bodies differing from the second in one field
AlertInputs ==
    { AlertBody("ILLEGAL_PARKING", 0, 0), AlertBody("WRONG_WAY", 100, 42),
      AlertBody("SPEEDING", 100, 42),
      AlertBody("WRONG_WAY", 0 - 1, 42), AlertBody("WRONG_WAY", 101, 42),
      AlertBody("WRONG_WAY", 100, 0 - 1) }

AcceptsAnyObjectId(body) ==
    /\ body.violation_type \in { "ILLEGAL_PARKING", "WRONG_WAY" }
    /\ body.confidence >= 0 /\ body.confidence <= 100

\* schemas.AlertCreate: the body validates
AlertCreate(body) ==
    /\ body.violation_type \in { "ILLEGAL_PARKING", "WRONG_WAY" }
    /\ body.confidence >= 0 /\ body.confidence <= 100
    /\ body.object_id >= 0

AlwaysFirstId(rows) == 1

\* the id the table gives the next inserted row: an INTEGER PRIMARY KEY, one
\* more than the largest id in the table
NextRowId(rows) ==
    IF rows = {} THEN 1
    ELSE 1 + (CHOOSE m \in { r.id : r \in rows } : \A r \in rows : r.id <= m)

\* models.Alert as create_alert builds it, after flush and refresh
Alert(id, body, now) ==
    [ id |-> id, violation_type |-> body.violation_type, confidence |-> body.confidence,
      object_id |-> body.object_id, snapshot_path |-> None, zone_id |-> None,
      metadata_json |-> None, timestamp |-> now ]

\* AlertResponse.model_validate(db_alert).model_dump(mode="json")
AlertResponse(row) ==
    [ id |-> row.id, violation_type |-> row.violation_type, confidence |-> row.confidence,
      object_id |-> row.object_id, snapshot_path |-> row.snapshot_path,
      zone_id |-> row.zone_id, metadata |-> None, timestamp |-> [ isoformat |-> row.timestamp ] ]

\* ConnectionManager.broadcast run with nothing else scheduled in between:
\* the clients the message reaches, failing being those whose send_json raises
Reached(conns, failing) == Members(conns) \ failing

\* ... and active_connections after its clean-up
AfterCleanup(conns, failing) ==
    LET Alive(c) == c \notin failing IN SelectSeq(conns, Alive)

NoRequest ==
    [ body |-> None, valid |-> FALSE, committed |-> FALSE, row |-> None,
      connected |-> << >>, failing |-> {}, received |-> [ c \in Clients |-> << >> ] ]

ApiInit ==
    /\ alerts = {}
    /\ pre_alerts = {}
    /\ api_clock = 0
    /\ active_connections = << >>
    /\ deliveries = [ c \in Clients |-> << >> ]
    /\ last_request = NoRequest
    /\ posts = 0
    /\ pushed = {}

BroadcastInit ==
    /\ bc_pc = "idle"
    /\ bc_message = None
    /\ bc_index = 1
    /\ bc_current = 0
    /\ bc_disconnected = << >>
    /\ bc_stayed = {}
    /\ bc_removed = {}
    /\ bc_count = 0

\* a request the validation of the body rejects: the handler does not run
Rejected(body) ==
    /\ last_request' =
         [ body |-> body, valid |-> FALSE, committed |-> FALSE, row |-> None,
           connected |-> active_connections, failing |-> {}, received |-> deliveries ]
    /\ UNCHANGED <<alerts, active_connections, deliveries, pushed>>

\* create_alert inside get_db: add, flush, refresh, broadcast, return, and
\* then the commit of the session, which succeeds or raises and is rolled back
Created(body, failing, commits) ==
    LET row     == Alert(NextRowId(alerts), body, api_clock)
        message == AlertResponse(row)
        reached == Reached(active_connections, failing)
    IN  /\ deliveries' =
             [ c \in Clients |->
                 IF c \in reached THEN Append(deliveries[c], message) ELSE deliveries[c] ]
        /\ active_connections' = AfterCleanup(active_connections, failing)
        /\ pushed' = pushed \cup { message }
        /\ alerts' = IF commits THEN alerts \cup { row } ELSE alerts
        /\ last_request' =
             [ body |-> body, valid |-> TRUE, committed |-> commits, row |-> row,
               connected |-> active_connections, failing |-> failing,
               received |-> deliveries ]

\* POST /api/alerts
PostAlert ==
    /\ posts < MaxPosts
    /\ posts' = posts + 1
    /\ pre_alerts' = alerts
    /\ \E body \in AlertInputs :
         IF AlertCreate(body)
         THEN \E failing \in SUBSET Members(active_connections), commits \in BOOLEAN :
                Created(body, failing, commits)
         ELSE Rejected(body)
    /\ UNCHANGED <<api_clock, bcVars>>

\* time passes at the server
ApiTick ==
    /\ api_clock < MaxApiElapsed
    /\ api_clock' = api_clock + 1
    /\ UNCHANGED <<alerts, pre_alerts, active_connections, deliveries, last_request, posts,
                   pushed, bcVars>>

\* websocket_alerts: ws_manager.connect, a dashboard client joins
ClientConnect ==
    /\ \E c \in Clients \ Members(active_connections) :
         active_connections' = Append(active_connections, c)
    /\ UNCHANGED <<alerts, pre_alerts, api_clock, deliveries, last_request, posts, pushed,
                   bcVars>>

\* websocket_alerts: WebSocketDisconnect, ws_manager.disconnect
ClientDisconnect ==
    /\ \E c \in Members(active_connections) :
         LET Others(x) == x # c
         IN  /\ active_connections' = SelectSeq(active_connections, Others)
             /\ bc_stayed' = bc_stayed \ { c }
    /\ UNCHANGED <<alerts, pre_alerts, api_clock, deliveries, last_request, posts, pushed,
                   bc_pc, bc_message, bc_index, bc_current, bc_disconnected, bc_removed,
                   bc_count>>

\* the messages broadcast: the n-th is the response for alert n
BroadcastMessage(n) == AlertResponse(Alert(n, AlertBody("ILLEGAL_PARKING", 92, 42), 0))

\* the for loop of broadcast from the top of an iteration to its next await:
\* the list iterator reads position idx of the list as it is now; when the
\* list is exhausted the clean-up loop runs and broadcast returns
Iterate(idx, disconnected) ==
    IF idx <= Len(active_connections)
    THEN /\ bc_pc' = "sending"
         /\ bc_current' = active_connections[idx]
         /\ bc_index' = idx + 1
         /\ bc_removed' = {}
         /\ UNCHANGED active_connections
    ELSE /\ bc_pc' = "done"
         /\ bc_current' = 0
         /\ bc_index' = idx
         /\ bc_removed' = Members(active_connections) \cap Members(disconnected)
         /\ active_connections' = AfterCleanup(active_connections, Members(disconnected))

\* broadcast is called and runs up to its first await
BroadcastBegin ==
    /\ bc_pc \in { "idle", "done" }
    /\ bc_count < MaxBroadcasts
    /\ bc_count' = bc_count + 1
    /\ bc_message' = BroadcastMessage(bc_count + 1)
    /\ bc_disconnected' = << >>
    /\ bc_stayed' = Members(active_connections)
    /\ Iterate(1, << >>)
    /\ UNCHANGED <<alerts, pre_alerts, api_clock, deliveries, last_request, posts, pushed>>

\* the awaited send_json returns or raises, and the loop goes on
SendReturns ==
    /\ bc_pc = "sending"
    /\ \E raised \in BOOLEAN :
         /\ deliveries' =
              [ c \in Clients |->
                  IF c = bc_current /\ ~raised THEN Append(deliveries[c], bc_message)
                  ELSE deliveries[c] ]
         /\ bc_disconnected' =
              IF raised THEN Append(bc_disconnected, bc_current) ELSE bc_disconnected
         /\ Iterate(bc_index, bc_disconnected')
    /\ UNCHANGED <<alerts, pre_alerts, api_clock, last_request, posts, pushed, bc_message,
                   bc_stayed, bc_count>>

----------------------------------------------------------------------------
(* Specifications *)

Init ==
    TrackerInit /\ ZoneInit /\ DirectionMachineInit /\ ManagerMachineInit /\ PipelineInit
    /\ PostprocessInit /\ FramesInit /\ ApiInit /\ BroadcastInit

Next == (Update \/ Reset) /\ UNCHANGED <<zoneVars, dirVars, mgrVars, pipeVars, detVars, frameVars, apiVars, bcVars>>

Spec == Init /\ [][Next]_vars

ZoneNext == (CheckZone \/ Tick) /\ UNCHANGED <<trackerVars, dirVars, mgrVars, pipeVars, detVars, frameVars, apiVars, bcVars>>

SpecZone == Init /\ [][ZoneNext]_vars

DirectionNext ==
    (ConstructChecked \/ CheckDirection \/ DirectionTick)
    /\ UNCHANGED <<trackerVars, zoneVars, mgrVars, pipeVars, detVars, frameVars, apiVars, bcVars>>

SpecDirection == Init /\ [][DirectionNext]_vars

LaneNext == ConstructAny /\ UNCHANGED <<trackerVars, zoneVars, mgrVars, pipeVars, detVars, frameVars, apiVars, bcVars>>

SpecLane == Init /\ [][LaneNext]_vars

ManagerNext ==
    (StartChecked \/ CheckViolations \/ ClockMoves) /\ UNCHANGED <<trackerVars, zoneVars, dirVars, pipeVars, detVars, frameVars, apiVars, bcVars>>

SpecManager == Init /\ [][ManagerNext]_vars

StartupNext == StartAny /\ UNCHANGED <<trackerVars, zoneVars, dirVars, pipeVars, detVars, frameVars, apiVars, bcVars>>

SpecStartup == Init /\ [][StartupNext]_vars

PipelineNext ==
    (RunStart \/ ReadFrame \/ DetectStep \/ TrackStep \/ CheckStep \/ DisplayStep \/ Finally)
    /\ UNCHANGED <<trackerVars, zoneVars, dirVars, mgrVars, detVars, frameVars, apiVars, bcVars>>

SpecPipeline == Init /\ [][PipelineNext]_vars

PostprocessNext ==
    PostprocessCall /\ UNCHANGED <<trackerVars, zoneVars, dirVars, mgrVars, pipeVars, frameVars, apiVars, bcVars>>

SpecPostprocess == Init /\ [][PostprocessNext]_vars

FramesNext ==
    \/ StartRun /\ UNCHANGED <<trackerVars, zoneVars, dirVars, pipeVars, detVars, frameVars, apiVars, bcVars>>
    \/ ProcessFrame /\ UNCHANGED <<zoneVars, dirVars, pipeVars, detVars, apiVars, bcVars>>

SpecFrames == Init /\ [][FramesNext]_vars

ApiNext ==
    (PostAlert \/ ApiTick \/ ClientConnect \/ ClientDisconnect)
    /\ UNCHANGED <<trackerVars, zoneVars, dirVars, mgrVars, pipeVars, detVars, frameVars>>

SpecApi == Init /\ [][ApiNext]_vars

BroadcastNext ==
    (BroadcastBegin \/ SendReturns \/ ClientConnect \/ ClientDisconnect)
    /\ UNCHANGED <<trackerVars, zoneVars, dirVars, mgrVars, pipeVars, detVars, frameVars>>

SpecBroadcast == Init /\ [][BroadcastNext]_vars

DetectNext ==
    Detect /\ UNCHANGED <<trackerVars, zoneVars, dirVars, mgrVars, pipeVars, frameVars, apiVars, bcVars>>

SpecDetect == Init /\ [][DetectNext]_vars

----------------------------------------------------------------------------
(* A long run of one tracker: single-detection frames, the histories       *)
(* holding at most MaxMoves centroid changes, long enough to fill a        *)
(* history of DEFAULT_HISTORY_LENGTH entries and evict from it.            *)

Changes(h) == Cardinality({ i \in 1..(Len(h) - 1) : h[i] # h[i + 1] })

RECURSIVE SumChanges(_)
SumChanges(objs) ==
    IF objs = <<>> THEN 0
    ELSE Changes(Head(objs).centroid_history) + SumChanges(Tail(objs))

\* one vehicle seen in every frame at either of two neighbouring places
LongRunInputs ==
    { <<d>> : d \in { x \in DetectionUniverse : x.center \in { <<1, 1>>, <<2, 1>> } } }

LongRunUpdate ==
    /\ \E ds \in LongRunInputs : UpdateWith(ds, MaxHistoryFrames)
    /\ SumChanges(objects') <= MaxMoves
    /\ UNCHANGED <<zoneVars, dirVars, mgrVars, pipeVars, detVars, frameVars, apiVars, bcVars>>

SpecHistory == Init /\ [][LongRunUpdate]_vars

----------------------------------------------------------------------------
(* Properties of the tracker *)

Range(f) == { f[i] : i \in DOMAIN f }

\* the track of pre_objects / objects with a given id
PreOf(id) == pre_objects[IndexOf(pre_objects, id)]
NowOf(id) == objects[IndexOf(objects, id)]

\* ids present before and after the last call
Survivors == Ids(pre_objects) \cap Ids(objects)

\* a surviving track that the last update associated with a detection
WasMatched(id) == NowOf(id).frame_count = PreOf(id).frame_count + 1

\* C1: with no reset in between, the ids _register hands out are strictly
\* increasing (so a deregistered id is never given out again), and the
\* tracks held carry distinct ids, each one handed out by _register.
C1_IdsUniqueIncreasing ==
    /\ \A i, j \in 1..Len(assigned) : i < j => assigned[i] < assigned[j]
    /\ \A i, j \in 1..Len(objects) : i # j => objects[i].object_id # objects[j].object_id
    /\ Ids(objects) \subseteq Range(assigned)

\* an update registered a new track after a track had been deregistered
C1_Witness ==
    /\ last_op = "update"
    /\ \E old \in Range(assigned) \ Ids(objects) :
         \E new \in Ids(objects) \ Ids(pre_objects) : new > old

\* C2: every track update returns has 0 <= disappeared <= max_disappeared.
C2_DisappearedBounded ==
    \A i \in 1..Len(objects) :
        objects[i].disappeared >= 0 /\ objects[i].disappeared <= max_disappeared

\* one update deleted a track at the limit and kept another one at the limit
C2_Witness ==
    /\ last_op = "update"
    /\ \E id \in Ids(pre_objects) \ Ids(objects) :
         PreOf(id).disappeared = max_disappeared
    /\ \E i \in 1..Len(objects) : objects[i].disappeared = max_disappeared

\* C3: a track unmatched for k consecutive updates is tracked iff
\* k <= max_disappeared, and a deregistered track went on the
\* (max_disappeared + 1)-th consecutive unmatched update; after empty frames
\* only, active_count follows the same rule.
C3_DeregisteredExactlyAfterMax ==
    /\ \A id \in DOMAIN missed :
         /\ (id \in Ids(objects)) <=> (missed[id] <= max_disappeared)
         /\ id \notin Ids(objects) => missed[id] = max_disappeared + 1
    /\ (last_op = "update" /\ Len(dets) = 0 /\ Len(pre_objects) = 1
        /\ pre_objects[1].disappeared = empties_before) =>
           ActiveCount(objects) = (IF empties_before + 1 <= max_disappeared THEN 1 ELSE 0)

\* the (max_disappeared + 1)-th empty frame in a row removed a track that the
\* max_disappeared empty frames before it had left in place
C3_Witness ==
    /\ last_op = "update" /\ Len(dets) = 0
    /\ empties_before = max_disappeared
    /\ Len(pre_objects) = 1 /\ ActiveCount(objects) = 0
    /\ pre_objects[1].disappeared = max_disappeared
    /\ missed[pre_objects[1].object_id] = max_disappeared + 1

\* C4: every track's centroid_history is non-empty, holds at most
\* DEFAULT_HISTORY_LENGTH entries, ends with the track's centroid, and an
\* association appends the new centroid, dropping the oldest entry when full.
C4_HistoryBounded ==
    /\ \A i \in 1..Len(objects) :
         LET h == objects[i].centroid_history
         IN  /\ Len(h) >= 1
             /\ Len(h) <= DEFAULT_HISTORY_LENGTH
             /\ h[Len(h)] = objects[i].centroid
    /\ last_op = "update" =>
         \A id \in Survivors :
             LET h == NowOf(id).centroid_history
                 g == PreOf(id).centroid_history
             IN  IF WasMatched(id)
                 THEN IF Len(g) = DEFAULT_HISTORY_LENGTH
                      THEN h = Tail(g) \o << NowOf(id).centroid >>
                      ELSE h = g \o << NowOf(id).centroid >>
                 ELSE h = g

\* an association on a full history whose oldest entry differs from the
\* entry that becomes the oldest
C4_Witness ==
    /\ last_op = "update"
    /\ \E id \in Survivors :
         /\ WasMatched(id)
         /\ Len(PreOf(id).centroid_history) = DEFAULT_HISTORY_LENGTH
         /\ PreOf(id).centroid_history[1] # PreOf(id).centroid_history[2]

\* the first detection at the least distance from a track
NearestCol(o, ds) ==
    CHOOSE c \in 1..Len(ds) :
        \A c2 \in 1..Len(ds) :
            \/ SqDist(o.centroid, ds[c].center) < SqDist(o.centroid, ds[c2].center)
            \/ SqDist(o.centroid, ds[c].center) = SqDist(o.centroid, ds[c2].center) /\ c <= c2

C5_Pre ==
    /\ last_op = "update"
    /\ Len(dets) > 0
    /\ Len(pre_objects) > 0
    /\ \A r \in 1..Len(pre_objects) :
         SqDist(pre_objects[r].centroid,
                dets[NearestCol(pre_objects[r], dets)].center) <= max_distance * max_distance
    /\ \A r1, r2 \in 1..Len(pre_objects) :
         r1 # r2 => NearestCol(pre_objects[r1], dets) # NearestCol(pre_objects[r2], dets)

\* C5: when every track's nearest detection is within max_distance and no two
\* tracks share it, update keeps every track with its id, sets disappeared to
\* 0, adds one to frame_count, appends the detection's centre to the history,
\* and registers tracks only for the remaining detections.
C5_AllTracksMatched ==
    C5_Pre =>
        /\ Len(objects) = Len(dets)
        /\ \A r \in 1..Len(pre_objects) :
             LET c == NearestCol(pre_objects[r], dets)
             IN  /\ objects[r].object_id = pre_objects[r].object_id
                 /\ objects[r].disappeared = 0
                 /\ objects[r].frame_count = pre_objects[r].frame_count + 1
                 /\ objects[r].centroid = dets[c].center
                 /\ objects[r].centroid_history =
                        pre_objects[r].centroid_history \o << dets[c].center >>
        /\ \A i \in (Len(pre_objects) + 1)..Len(objects) :
             /\ objects[i].object_id \notin Ids(pre_objects)
             /\ \E c \in 1..Len(dets) :
                  /\ objects[i].centroid = dets[c].center
                  /\ \A r \in 1..Len(pre_objects) : NearestCol(pre_objects[r], dets) # c

\* two tracks, one of them exactly max_distance away from its detection
C5_Witness ==
    /\ C5_Pre
    /\ Len(pre_objects) = 2
    /\ \E r \in 1..2 :
         SqDist(pre_objects[r].centroid,
                dets[NearestCol(pre_objects[r], dets)].center) = max_distance * max_distance

\* row r of pre_objects went through k >= 1 empty frames and the last call
\* submitted one detection at its last centroid
C6_Case(r) ==
    /\ last_op = "update"
    /\ Len(dets) = 1
    /\ empties_before >= 1
    /\ empties_before <= max_disappeared
    /\ pre_objects[r].disappeared >= empties_before
    /\ dets[1].center = pre_objects[r].centroid

C6_Restored(r) ==
    /\ pre_objects[r].object_id \in Ids(objects)
    /\ NowOf(pre_objects[r].object_id).disappeared = 0
    /\ NowOf(pre_objects[r].object_id).centroid = dets[1].center
    /\ Ids(objects) \subseteq Ids(pre_objects)

\* C6 as stated: after k <= max_disappeared empty frames, one detection at a
\* track's last centroid is matched to that track and registers nothing.
C6_AsStated ==
    \A r \in 1..Len(pre_objects) : C6_Case(r) => C6_Restored(r)

\* C6 as amended: the same, for a track that is the only one at its centroid.
C6_RestoredWhenAlone ==
    \A r \in 1..Len(pre_objects) :
        ( /\ C6_Case(r)
          /\ \A r2 \in 1..Len(pre_objects) :
               r2 # r => pre_objects[r2].centroid # pre_objects[r].centroid )
        => C6_Restored(r)

\* max_disappeared empty frames, then the detection, with a second track
\* elsewhere
C6_Witness ==
    \E r \in 1..Len(pre_objects) :
        /\ C6_Case(r)
        /\ empties_before = max_disappeared
        /\ Len(pre_objects) = 2
        /\ \A r2 \in 1..Len(pre_objects) :
             r2 # r => pre_objects[r2].centroid # pre_objects[r].centroid

\* C7: a track that the last update associated with a detection carries that
\* detection's bbox, confidence, class id and class name.
C7_ClassOfLastDetection ==
    last_op = "update" =>
        \A id \in Survivors :
            WasMatched(id) =>
                \E c \in 1..Len(dets) :
                    /\ dets[c].center = NowOf(id).centroid
                    /\ dets[c].bbox = NowOf(id).bbox
                    /\ dets[c].confidence = NowOf(id).confidence
                    /\ dets[c].class_id = NowOf(id).class_id
                    /\ dets[c].class_name = NowOf(id).class_name

\* C8: right after reset the tracker holds no tracks, and the first track
\* registered after a reset has object_id 0.
C8_ResetRestartsIds ==
    /\ last_op = "reset" => ActiveCount(objects) = 0
    /\ (reset_from >= 0 /\ Len(assigned) > 0) => assigned[1] = 0
    /\ (reset_from >= 0 /\ last_op = "update" /\ Len(pre_objects) = 0
        /\ Len(assigned) = Len(objects) /\ Len(objects) > 0) =>
           objects[1].object_id = 0

\* reset was called on a tracker that had handed out ids, and the following
\* update registered a track
C8_Witness ==
    /\ reset_from > 0
    /\ last_op = "update"
    /\ Len(pre_objects) = 0
    /\ Len(objects) > 0
    /\ Len(assigned) = Len(objects)

----------------------------------------------------------------------------
(* Properties of the zone detector *)

\* positions in the returned list of the events for one object
EventsFor(id) == { i \in 1..Len(violations) : violations[i].object_id = id }

C10_OneEventPerCooldown ==
    \A id \in ZoneIds :
        /\ Cardinality(EventsFor(id)) <= 1
        /\ \A e \in EventsFor(id) :
             prev_event[id] >= 0 => violations[e].timestamp - prev_event[id] > cooldown_seconds

\* C11: a check that lists an object inside the zone for longer than
\* dwell_threshold checks in a row, made more than cooldown_seconds after the
\* object's last event, emits exactly one more ILLEGAL_PARKING event for it,
\* whose dwell_frames is the length of the whole stay.
C11_RearmsAfterCooldown ==
    \A i \in 1..Len(zone_input) :
        LET id == zone_input[i].object_id
        IN  ( /\ inside_run[id] > dwell_threshold
              /\ prev_event[id] >= 0
              /\ check_time - prev_event[id] > cooldown_seconds )
            => /\ Cardinality(EventsFor(id)) = 1
               /\ dwell_counts[id] = inside_run[id]
               /\ \A e \in EventsFor(id) :
                    /\ violations[e].violation_type = "ILLEGAL_PARKING"
                    /\ violations[e].timestamp = check_time
                    /\ violations[e].metadata.dwell_frames = inside_run[id]

\* the check right after the threshold check of the same stay, made once the
\* cooldown has passed, fires again
C11_Witness ==
    \E id \in ZoneIds :
        /\ inside_run[id] = dwell_threshold + 1
        /\ prev_event[id] >= 0
        /\ check_time - prev_event[id] = cooldown_seconds + 1
        /\ EventsFor(id) # {}

\* C12: after a check, a listed object has a dwell_counts entry exactly when
\* its centroid is inside the polygon, the entry is the number of most recent
\* checks in a row that listed it inside, and an event is emitted only for an
\* object that has been inside for at least dwell_threshold checks in a row.
C12_DwellCountsConsecutiveInside ==
    \A i \in 1..Len(zone_input) :
        LET id == zone_input[i].object_id
        IN  /\ id \in DOMAIN dwell_counts <=> IsInsideZone(zone_input[i].centroid)
            /\ id \in DOMAIN dwell_counts => dwell_counts[id] = inside_run[id]
            /\ ~IsInsideZone(zone_input[i].centroid) => inside_run[id] = 0
            /\ EventsFor(id) # {} => inside_run[id] >= dwell_threshold

\* an object that fired earlier, left the zone and is back for its first
\* check, next to an object listed outside the zone
C12_Witness ==
    /\ Len(zone_input) = 2
    /\ \E i, k \in 1..Len(zone_input) :
         /\ last_event[zone_input[i].object_id] >= 0
         /\ zone_input[i].object_id \in DOMAIN dwell_counts
         /\ dwell_counts[zone_input[i].object_id] = 1
         /\ ~IsInsideZone(zone_input[k].centroid)

\* C13: after a check, every key of dwell_counts and every key of
\* last_alert_time is the id of an object of the list that was checked.
C13_NoStaleKeys ==
    /\ DOMAIN dwell_counts \subseteq Ids(zone_input)
    /\ DOMAIN last_alert_time \subseteq Ids(zone_input)

----------------------------------------------------------------------------
(* Properties of the direction detector *)

\* positions in the returned list of the events for one object
WrongWayEventsFor(id) == { i \in 1..Len(dir_violations) : dir_violations[i].object_id = id }

\* C14: a WRONG_WAY event is emitted only for a listed object that moves
\* against the lane in this check and whose counter has reached
\* direction_threshold, the counter being the number of wrong-way checks since
\* its last check with a dot product >= 0; a check with a dot product >= 0
\* (perpendicular motion included) removes the counter and emits nothing.
C14_EventOnlyAtThreshold ==
    /\ \A e \in 1..Len(dir_violations) : Listed(dir_input, dir_violations[e].object_id)
    /\ \A i \in 1..Len(dir_input) :
         LET id == dir_input[i].object_id
         IN  /\ WrongWayEventsFor(id) # {}
                  => /\ HasMovement(dir_input[i])
                     /\ LaneDot(dir_input[i]) < 0
                     /\ id \in DOMAIN wrong_way_counts
                     /\ wrong_way_counts[id] >= direction_threshold
                     /\ wrong_way_counts[id] = wrong_run[id]
                     /\ \A e \in WrongWayEventsFor(id) :
                          /\ dir_violations[e].violation_type = "WRONG_WAY"
                          /\ dir_violations[e].metadata.consecutive_frames = wrong_run[id]
             /\ (HasMovement(dir_input[i]) /\ LaneDot(dir_input[i]) >= 0)
                  => /\ id \notin DOMAIN wrong_way_counts
                     /\ WrongWayEventsFor(id) = {}
             /\ id \in DOMAIN wrong_way_counts => wrong_way_counts[id] = wrong_run[id]

\* a perpendicular move drops a counter that was one short of the threshold
C14_Witness ==
    \E i \in 1..Len(dir_input) :
        /\ HasMovement(dir_input[i])
        /\ LaneDot(dir_input[i]) = 0
        /\ dir_input[i].object_id \in DOMAIN pre_wrong_way_counts
        /\ pre_wrong_way_counts[dir_input[i].object_id] = direction_threshold - 1
        /\ dir_input[i].object_id \notin DOMAIN wrong_way_counts

\* C15: an object for which no check so far saw two history points at least
\* min_displacement apart has never had a WRONG_WAY event and has no counter.
C15_NoEventWithoutDisplacement ==
    \A id \in DirectionIds :
        ~moved_ever[id] =>
            /\ WrongWayEventsFor(id) = {}
            /\ dir_last_event[id] = -1
            /\ id \notin DOMAIN wrong_way_counts
            /\ id \notin DOMAIN dir_last_alert_time

\* direction_threshold checks in a row listed an object creeping against the
\* lane by less than min_displacement, while another object was alerted
C15_Witness ==
    \E i \in 1..Len(dir_input) :
        /\ ~moved_ever[dir_input[i].object_id]
        /\ still_run[dir_input[i].object_id] >= direction_threshold
        /\ Len(dir_input[i].centroid_history) >= 2
        /\ LaneDot(dir_input[i]) < 0
        /\ Len(dir_violations) > 0

\* C16: a check that lists an object whose movement is below
\* min_displacement (or that has fewer than two history points) leaves the
\* object's wrong-way counter and last-alert time as they were and emits
\* nothing for it.
C16_StationaryLeavesCounter ==
    \A i \in 1..Len(dir_input) :
        LET id == dir_input[i].object_id
        IN  ~HasMovement(dir_input[i]) =>
                /\ id \in DOMAIN wrong_way_counts <=> id \in DOMAIN pre_wrong_way_counts
                /\ id \in DOMAIN wrong_way_counts =>
                       wrong_way_counts[id] = pre_wrong_way_counts[id]
                /\ id \in DOMAIN dir_last_alert_time <=> id \in DOMAIN pre_dir_alert_time
                /\ id \in DOMAIN dir_last_alert_time =>
                       dir_last_alert_time[id] = pre_dir_alert_time[id]
                /\ WrongWayEventsFor(id) = {}

\* a stationary check of an object that holds a counter and a last-alert time
C16_Witness ==
    \E i \in 1..Len(dir_input) :
        /\ ~HasMovement(dir_input[i])
        /\ dir_input[i].object_id \in DOMAIN wrong_way_counts
        /\ wrong_way_counts[dir_input[i].object_id] >= direction_threshold
        /\ dir_input[i].object_id \in DOMAIN dir_last_alert_time

\* C17: any two WRONG_WAY events for one object_id are more than
\* cooldown_seconds apart, whatever the calls between them listed.
C17_OneWrongWayPerCooldown ==
    \A id \in DirectionIds :
        /\ Cardinality(WrongWayEventsFor(id)) <= 1
        /\ \A e \in WrongWayEventsFor(id) :
             dir_prev_event[id] >= 0 =>
                 dir_violations[e].timestamp - dir_prev_event[id] > direction_cooldown_seconds

\* C18: after a check, every key of wrong_way_counts and every key of
\* last_alert_time is the id of an object of the list that was checked.
C18_NoStaleDirectionKeys ==
    /\ DOMAIN wrong_way_counts \subseteq Ids(dir_input)
    /\ DOMAIN dir_last_alert_time \subseteq Ids(dir_input)

\* C19: with a direction zone polygon configured, a check emits an event or
\* advances the wrong-way counter only for objects whose centroid is inside
\* that polygon.
C19_OnlyInsideDirectionZone ==
    direction_zone # None =>
        \A i \in 1..Len(dir_input) :
            LET id == dir_input[i].object_id
            IN  ( \/ WrongWayEventsFor(id) # {}
                  \/ /\ id \in DOMAIN wrong_way_counts
                     /\ wrong_way_counts[id] > DictGet(pre_wrong_way_counts, id, 0) )
                => PointPolygonTest(direction_zone, dir_input[i].centroid) >= 0

\* C20: construction fails exactly for the zero lane vector and then leaves
\* no lane direction; otherwise the stored lane direction has length 1 and
\* points the way the given vector does.
C20_ZeroLaneRejectedElseUnit ==
    dir_status # "none" =>
        /\ dir_status = "error" <=> lane_input = <<0, 0>>
        /\ dir_status = "error" => lane_direction = None
        /\ dir_status = "ok" =>
             /\ lane_direction.x * lane_direction.x + lane_direction.y * lane_direction.y
                    = lane_direction.n2
             /\ lane_direction.x * lane_input[2] = lane_direction.y * lane_input[1]
             /\ lane_direction.x * lane_input[1] + lane_direction.y * lane_input[2] > 0

\* a detector built for a slanted lane that is not of length 1
C20_Witness ==
    /\ dir_status = "ok"
    /\ lane_input = <<-3, 4>>

----------------------------------------------------------------------------
(* Properties of the violation manager *)

ViolationTypes == { "ILLEGAL_PARKING", "WRONG_WAY" }

\* C21: total_violations equals the sum of the per-type counters and the
\* number of events returned so far; in a call each returned event is counted
\* once, then snapshotted once, then dispatched once, in the order returned.
C21_CountersAgree ==
    /\ total_violations = returned_total
    /\ DOMAIN violations_by_type \subseteq ViolationTypes
    /\ total_violations = DictGet(violations_by_type, "ILLEGAL_PARKING", 0)
                            + DictGet(violations_by_type, "WRONG_WAY", 0)
    /\ \A i \in 1..Len(all_violations) :
         /\ all_violations[i].violation_type \in DOMAIN violations_by_type
         /\ violations_by_type[all_violations[i].violation_type]
              >= Cardinality({ k \in 1..Len(all_violations) :
                                 all_violations[k].violation_type
                                   = all_violations[i].violation_type })
    /\ Len(effects) = 3 * Len(all_violations)
    /\ \A i \in 1..Len(all_violations) :
         /\ effects[3 * i - 2].op = "count" /\ effects[3 * i - 2].event = i
         /\ effects[3 * i - 1].op = "snapshot" /\ effects[3 * i - 1].event = i
         /\ effects[3 * i].op = "post" /\ effects[3 * i].event = i

\* a call that returns an event of each type, after an earlier call returned one
C21_Witness ==
    /\ Len(all_violations) = 2
    /\ all_violations[1].violation_type # all_violations[2].violation_type
    /\ total_violations >= 3

\* C22: every returned event is dispatched, and the record dispatched for an
\* event whose snapshot could not be written has no snapshot_path.
C22_NullPathWhenSnapshotFails ==
    \A i \in 1..Len(all_violations) :
        /\ \E k \in 1..Len(effects) : effects[k].op = "post" /\ effects[k].event = i
        /\ \A k, n \in 1..Len(effects) :
             ( /\ effects[k].op = "snapshot" /\ effects[k].event = i
               /\ effects[k].result = "failed"
               /\ effects[n].op = "post" /\ effects[n].event = i )
             => effects[n].snapshot_path = None

\* C23: every returned event causes exactly one POST, whatever the POSTs of
\* the events before it ended in, and is counted and snapshotted as well; the
\* manager stays usable for the next frame.
C23_DispatchBestEffort ==
    /\ mgr_status = "ok" =>
         \A i \in 1..Len(all_violations) :
             /\ Cardinality({ k \in 1..Len(effects) :
                                effects[k].op = "post" /\ effects[k].event = i }) = 1
             /\ Cardinality({ k \in 1..Len(effects) :
                                effects[k].op = "count" /\ effects[k].event = i }) = 1
             /\ Cardinality({ k \in 1..Len(effects) :
                                effects[k].op = "snapshot" /\ effects[k].event = i }) = 1
    /\ total_violations = returned_total

\* the POST of the first of two events times out, a call having come before
C23_Witness ==
    /\ Len(all_violations) = 2
    /\ Len(effects) = 6
    /\ effects[3].result = "timeout"
    /\ effects[6].op = "post"
    /\ calls >= 2

C29_InvalidConfigRejected ==
    mgr_status = "ok" =>
        /\ ~GetZonePolygon(settings.zone_polygon).raised
        /\ Len(GetZonePolygon(settings.zone_polygon).value) >= 3
        /\ settings.lane_direction # <<0, 0>>
        /\ settings.dwell_threshold > 0
        /\ settings.direction_threshold > 0

----------------------------------------------------------------------------
(* Properties of the pipeline loop *)

Terminated == pipe_pc \in { "returned", "raised" }

\* C26: the loop is left on end-of-stream, on the frame cap and on the quit
\* key, and no step of the loop runs afterwards; once run has ended, by return
\* or by an exception of a step, the capture is released and, in display
\* mode, the windows are destroyed.
C26_TerminatesAndReleases ==
    /\ Terminated => (cap_released /\ (display => windows_destroyed))
    /\ cause # "" => (pipe_pc \in { "finally", "returned", "raised" } /\ leave_marks = Marks)
    /\ (pipe_pc \in { "detect", "track", "check", "display" }) =>
         (frames_read <= source_frames /\ ~CapExceeded(max_frames, frame_count))
    /\ (pipe_pc = "read" /\ show_calls > 0) => cause = ""
    /\ cause = "eos" => frames_read = source_frames
    /\ cause = "cap" => (max_frames # None /\ frame_count > max_frames[1])
    /\ cause = "quit" => (display /\ show_calls > 0)

\* a step raised in display mode after a frame had been shown, and run has ended
C26_Witness ==
    /\ pipe_pc = "raised"
    /\ display
    /\ show_calls >= 1
    /\ cap_released
    /\ windows_destroyed

\* C27: with a frame cap n >= 1 on a source of more than n frames, a run that is
\* neither quit nor broken by an exception passes exactly n frames through
\* detect, track and check and reports n; whenever run returns, the reported
\* total is the number of frames processed.
C27_ReportedFramesAreProcessed ==
    /\ ( /\ pipe_pc = "returned"
         /\ max_frames # None
         /\ cause # "quit" ) =>
           IF max_frames[1] >= 1 /\ source_frames > max_frames[1]
           THEN /\ detect_calls = max_frames[1]
                /\ track_calls = max_frames[1]
                /\ check_calls = max_frames[1]
                /\ reported_frames = << max_frames[1] >>
           ELSE TRUE
    /\ pipe_pc = "returned" => reported_frames = << check_calls >>

\* C28: when detect raises on a frame, neither the tracker nor the violation
\* manager nor the display sees that frame, no later frame is read, and run
\* ends with the capture released.
C28_NoPartialProcessing ==
    raised_in = "detect" =>
        /\ pipe_pc \in { "finally", "raised" }
        /\ detect_calls = frame_count - 1
        /\ track_calls = frame_count - 1
        /\ check_calls = frame_count - 1
        /\ show_calls <= frame_count - 1
        /\ frames_read = frame_count
        /\ pipe_pc = "raised" => cap_released

\* detect raised on the second frame of a longer source, and run has ended
C28_Witness ==
    /\ raised_in = "detect"
    /\ pipe_pc = "raised"
    /\ frame_count = 2
    /\ frames_read < source_frames
    /\ cap_released

----------------------------------------------------------------------------
(* Properties of the detector's post-processing *)

C30_FiniteDetectionsWellFormed ==
    \A i \in 1..Len(detections) :
        /\ 0 <= detections[i].bbox[1]
        /\ detections[i].bbox[1] < detections[i].bbox[3]
        /\ detections[i].bbox[3] <= original_shape[2] - 1
        /\ 0 <= detections[i].bbox[2]
        /\ detections[i].bbox[2] < detections[i].bbox[4]
        /\ detections[i].bbox[4] <= original_shape[1] - 1
        /\ detections[i].class_id \in { 2, 3, 5, 7 }
        /\ detections[i].confidence # NaN => detections[i].confidence >= confidence_threshold

----------------------------------------------------------------------------
(* Properties of the association, continued *)

\* rows r1 and r2 of pre_objects have the same nearest detection, r1 is
\* strictly nearer to it than every other row that has it as nearest, and
\* within max_distance of it
C34_Case(r1, r2) ==
    /\ last_op = "update"
    /\ Len(dets) > 0
    /\ r1 # r2
    /\ NearestCol(pre_objects[r1], dets) = NearestCol(pre_objects[r2], dets)
    /\ \A r3 \in 1..Len(pre_objects) :
         (r3 # r1 /\ NearestCol(pre_objects[r3], dets) = NearestCol(pre_objects[r1], dets)) =>
             SqDist(pre_objects[r1].centroid, dets[NearestCol(pre_objects[r1], dets)].center)
               < SqDist(pre_objects[r3].centroid, dets[NearestCol(pre_objects[r1], dets)].center)
    /\ SqDist(pre_objects[r1].centroid, dets[NearestCol(pre_objects[r1], dets)].center)
         <= max_distance * max_distance

\* the track of row r was left without a detection by the last update
C34_Unmatched(r) ==
    IF pre_objects[r].object_id \in Ids(objects)
    THEN /\ NowOf(pre_objects[r].object_id).disappeared = pre_objects[r].disappeared + 1
         /\ NowOf(pre_objects[r].object_id).centroid = pre_objects[r].centroid
         /\ NowOf(pre_objects[r].object_id).frame_count = pre_objects[r].frame_count
         /\ NowOf(pre_objects[r].object_id).centroid_history = pre_objects[r].centroid_history
    ELSE pre_objects[r].disappeared + 1 > max_disappeared

\* detection c is the nearest one of no track
C34_NobodysNearest(c) ==
    \A r \in 1..Len(pre_objects) : NearestCol(pre_objects[r], dets) # c

\* the last update registered a track for detection c
C34_Registered(c) ==
    \E i \in 1..Len(objects) :
        /\ objects[i].object_id \notin Ids(pre_objects)
        /\ objects[i].centroid = dets[c].center
        /\ objects[i].bbox = dets[c].bbox
        /\ objects[i].frame_count = 0
        /\ objects[i].disappeared = 0

C35_Represents(f) ==
    /\ \A c1, c2 \in 1..Len(dets) : c1 # c2 => f[c1] # f[c2]
    /\ \A c \in 1..Len(dets) :
         /\ objects[f[c]].disappeared = 0
         /\ objects[f[c]].centroid = dets[c].center
         /\ objects[f[c]].bbox = dets[c].bbox
         /\ objects[f[c]].confidence = dets[c].confidence

\* C35: after an update with a non-empty detection list the detections can be
\* assigned one-to-one to distinct returned tracks, each with disappeared = 0
\* and the centroid, bbox and confidence of its detection, so that
\* active_count >= len(detections).
C35_EveryDetectionTracked ==
    (last_op = "update" /\ Len(dets) > 0) =>
        /\ ActiveCount(objects) >= Len(dets)
        /\ \E f \in [ 1..Len(dets) -> 1..Len(objects) ] : C35_Represents(f)

\* an update with two detections: one went to an existing track, one was
\* registered, and a further track was left unmatched
C35_Witness ==
    /\ last_op = "update"
    /\ Len(dets) = 2
    /\ \E id \in Survivors : WasMatched(id)
    /\ \E id \in Survivors : NowOf(id).disappeared > 0
    /\ \E i \in 1..Len(objects) : objects[i].object_id \notin Ids(pre_objects)

----------------------------------------------------------------------------
(* Properties of the zone detector, continued *)

\* the last check returned an event for id
C37_EventNow(id) == \E i \in 1..Len(violations) : violations[i].object_id = id

\* C37: an object listed outside the zone has no dwell counter; an object
\* that has been listed by every check since an event of its own keeps its
\* last alert time, and gets a further event only when more than
\* cooldown_seconds have passed since the previous one.
C37_CooldownSurvivesLeaving ==
    \A id \in ZoneIds :
        /\ (id \in Ids(zone_input) /\ ~ListedInside(zone_input, id)) =>
               id \notin DOMAIN dwell_counts
        /\ (id \in Ids(zone_input) /\ prev_listed_since[id]) =>
               /\ id \in DOMAIN last_alert_time
               /\ last_alert_time[id] = last_event[id]
               /\ C37_EventNow(id) => check_time - prev_event[id] > cooldown_seconds

\* an object fired, left the zone, has been back inside for dwell_threshold
\* checks, the cooldown is still running and no event was emitted for it
C37_Witness ==
    \E id \in ZoneIds :
        /\ prev_listed_since[id]
        /\ ListedInside(zone_input, id)
        /\ inside_run[id] = dwell_threshold
        /\ dwell_counts[id] = dwell_threshold
        /\ check_time - last_event[id] <= cooldown_seconds
        /\ ~C37_EventNow(id)

----------------------------------------------------------------------------
(* Properties of the frames of a run *)

\* the object moved at least min_displacement, against the lane of the settings
C36_MovesWrongWay(o) ==
    /\ HasMovement(o)
    /\ Displacement(o)[1] * settings.lane_direction[1]
         + Displacement(o)[2] * settings.lane_direction[2] < 0

\* the last frame returned an event of type vtype for id
C36_EventFor(id, vtype) ==
    \E k \in 1..Len(all_violations) :
        all_violations[k].object_id = id /\ all_violations[k].violation_type = vtype

\* C36: a track the frame's update left unmatched but alive is handed to
\* both detectors with the centroid and history it had; when that centroid is
\* inside the zone its dwell counter advances by one, and when its history
\* shows wrong-way movement its wrong-way counter advances by one.
C36_UndetectedStillChecked ==
    (last_op = "update" /\ mgr_status = "ok") =>
        \A i \in 1..Len(objects) :
            objects[i].disappeared > 0 =>
                /\ objects[i].disappeared <= max_disappeared
                /\ \E k \in 1..Len(mgr_input) : mgr_input[k] = objects[i]
                /\ objects[i].centroid = PreOf(objects[i].object_id).centroid
                /\ objects[i].centroid_history = PreOf(objects[i].object_id).centroid_history
                /\ IsInsideZone(objects[i].centroid) =>
                     /\ objects[i].object_id \in DOMAIN zone_detector.dwell
                     /\ zone_detector.dwell[objects[i].object_id]
                          = DictGet(dwell_before, objects[i].object_id, 0) + 1
                /\ C36_MovesWrongWay(objects[i]) =>
                     /\ objects[i].object_id \in DOMAIN direction_detector.counts
                     /\ direction_detector.counts[objects[i].object_id]
                          = DictGet(wrong_way_before, objects[i].object_id, 0) + 1

\* a frame in which a vehicle was not detected returned an ILLEGAL_PARKING
\* and a WRONG_WAY event for its track
C36_Witness ==
    /\ last_op = "update"
    /\ \E i \in 1..Len(objects) :
         /\ objects[i].disappeared > 0
         /\ C36_EventFor(objects[i].object_id, "ILLEGAL_PARKING")
         /\ C36_EventFor(objects[i].object_id, "WRONG_WAY")

\* the object of id is listed in the last frame with its centroid inside the zone
C38_InZone(id) ==
    \E k \in 1..Len(mgr_input) :
        mgr_input[k].object_id = id /\ IsInsideZone(mgr_input[k].centroid)

\* C38: at the end of a frame every object_id in confirmed_violations has a
\* dwell counter and is listed inside the zone; the object of a WRONG_WAY
\* event that is not inside the zone is not in confirmed_violations.
C38_ConfirmedOnlyInZone ==
    /\ DOMAIN confirmed_violations \subseteq DOMAIN zone_detector.dwell
    /\ \A id \in DOMAIN confirmed_violations : C38_InZone(id)
    /\ \A k \in 1..Len(all_violations) :
         (all_violations[k].violation_type = "WRONG_WAY"
            /\ ~C38_InZone(all_violations[k].object_id)) =>
             all_violations[k].object_id \notin DOMAIN confirmed_violations

\* a frame returned a WRONG_WAY event for an object outside the zone, which
\* is not in confirmed_violations, while a parked object is
C38_Witness ==
    /\ \E k \in 1..Len(all_violations) :
         /\ all_violations[k].violation_type = "WRONG_WAY"
         /\ ~C38_InZone(all_violations[k].object_id)
         /\ all_violations[k].object_id \notin DOMAIN confirmed_violations
    /\ \E id \in DOMAIN confirmed_violations :
         confirmed_violations[id] = "ILLEGAL_PARKING"

----------------------------------------------------------------------------
(* Properties of the alert API *)

\* the ids of a set of rows
C33_IdsOf(rows) == { r.id : r \in rows }

\* a message carries a row
C33_Carries(m, r) ==
    /\ m.id = r.id /\ m.violation_type = r.violation_type /\ m.confidence = r.confidence
    /\ m.object_id = r.object_id /\ m.timestamp.isoformat = r.timestamp

\* the values a row or a message carries are those a well-formed body has
C32_WellFormed(r) ==
    /\ r.violation_type \in { "ILLEGAL_PARKING", "WRONG_WAY" }
    /\ r.confidence \in 0..100
    /\ r.object_id >= 0

\* C32: a POST /api/alerts whose violation_type is neither ILLEGAL_PARKING
\* nor WRONG_WAY, whose confidence is outside [0, 1] or whose object_id is
\* negative is rejected by the validation; no alert row is stored and no
\* client receives anything for it, so no stored row and no message ever
\* carries such values.
C32_InvalidRejected ==
    /\ (posts > 0 /\ (\/ last_request.body.violation_type \notin { "ILLEGAL_PARKING", "WRONG_WAY" }
                      \/ last_request.body.confidence \notin 0..100
                      \/ last_request.body.object_id < 0))
         => /\ ~last_request.valid
            /\ alerts = pre_alerts
            /\ deliveries = last_request.received
    /\ \A r \in alerts : C32_WellFormed(r)
    /\ \A m \in pushed : C32_WellFormed(m)
    /\ \A c \in Clients : \A i \in 1..Len(deliveries[c]) : C32_WellFormed(deliveries[c][i])

\* a body with a negative object_id is posted while a client is connected
\* and a row is stored
C32_Witness ==
    /\ posts > 0
    /\ last_request.body.object_id < 0
    /\ ~last_request.valid
    /\ last_request.connected # << >>
    /\ alerts # {}

C40_BroadcastOnlyPersisted ==
    \A c \in Clients : \A i \in 1..Len(deliveries[c]) :
        \E r \in alerts : C33_Carries(deliveries[c][i], r)

----------------------------------------------------------------------------
(* Properties of the broadcast *)

\* how often the client has received the message of the broadcast
C39_Received(c) ==
    Cardinality({ i \in 1..Len(deliveries[c]) : deliveries[c][i] = bc_message })

\* C39: when a broadcast has returned, every client that was in
\* active_connections all the time since it began has received the message
\* exactly once or its send failed, whatever connected or disconnected
\* meanwhile; and the broadcast removed only clients whose send failed.
C39_DeliversToAllPresent ==
    bc_pc = "done"
      => /\ \A c \in bc_stayed :
              C39_Received(c) = 1 \/ c \in Members(bc_disconnected)
         /\ bc_removed \subseteq Members(bc_disconnected)

----------------------------------------------------------------------------
(* Properties of the letterbox *)

\* the corners of the reported box in letterbox pixels, doubled
C31_Corner2(k) ==
    LET b == predictions[1].box
    IN  CASE k = 1 -> 2 * b[1] - b[3]
          [] k = 2 -> 2 * b[2] - b[4]
          [] k = 3 -> 2 * b[1] + b[3]
          [] k = 4 -> 2 * b[2] + b[4]

\* the axis of a corner: 1 for x, 2 for y
C31_Axis(k) == IF k \in { 1, 3 } THEN 1 ELSE 2

\* the box lies inside the un-padded image area of the canvas, and detect
\* has returned it
C31_InsideImage ==
    /\ Len(predictions) = 1 /\ Len(detections) = 1
    /\ \A k \in 1..4 :
         /\ C31_Corner2(k) >= 2 * pad[C31_Axis(k)]
         /\ C31_Corner2(k) <=
              2 * (pad[C31_Axis(k)]
                   + (original_shape[3 - C31_Axis(k)] * scale[1]) \div scale[2])

\* corner k mapped to the frame and back lies within limit / scale[2]
\* letterbox pixels of where it was
C31_CornerWithin(k, limit) ==
    LET back == ToModel(detections[1].bbox[k], scale, pad[C31_Axis(k)])
        diff == C31_Corner2(k) * back[2] - 2 * back[1]
    IN  diff <= 2 * limit /\ 0 - diff <= 2 * limit

\* the centre and the extent of the box mapped to the frame and back lie
\* within limit / scale[2] letterbox pixels of (cx, cy) and (bw, bh)
C31_CentreAndExtentWithin(axis, limit) ==
    LET lo     == ToModel(detections[1].bbox[axis], scale, pad[axis])
        hi     == ToModel(detections[1].bbox[axis + 2], scale, pad[axis])
        centre == 2 * predictions[1].box[axis] * scale[2] - (lo[1] + hi[1])
        extent == predictions[1].box[axis + 2] * scale[2] - (hi[1] - lo[1])
    IN  /\ centre <= 2 * limit /\ 0 - centre <= 2 * limit
        /\ extent <= limit /\ 0 - extent <= limit

\* C31, as stated: a box inside the un-padded image area, mapped to the
\* frame with the scale and padding of the preprocessing and back, is
\* recovered to within 1 letterbox pixel, whatever the size of the frame.
C31_RoundTripWithinOnePixel ==
    C31_InsideImage
      => /\ \A k \in 1..4 : C31_CornerWithin(k, scale[2])
         /\ \A axis \in 1..2 : C31_CentreAndExtentWithin(axis, scale[2])

\* C31, amended: the box is recovered to within max(1, scale) letterbox
\* pixels, one pixel of the frame: within 1 pixel for frames not smaller
\* than the target, within scale pixels for smaller ones.
C31_RoundTripWithinFramePixel ==
    C31_InsideImage
      => /\ \A k \in 1..4 : C31_CornerWithin(k, Max2(scale[1], scale[2]))
         /\ \A axis \in 1..2 : C31_CentreAndExtentWithin(axis, Max2(scale[1], scale[2]))

\* a box of a padded frame larger than the target that loses something in
\* the truncation
C31_Witness ==
    /\ C31_InsideImage
    /\ scale[1] < scale[2]
    /\ pad # << 0, 0 >>
    /\ \E k \in 1..4 : ~C31_CornerWithin(k, 0)

====
